---- MODULE Spec2Model ----
(***************************************************************************)
(* Model of the smart job search core of Entervio:                         *)
(*   - FranceTravailService (services/francetravail_service.py): the job   *)
(*     board client, its token cache and the request it builds;            *)
(*   - SmartJobService (services/smart_job_service.py): planning,          *)
(*     location resolution, the parallel search tasks, merge, national     *)
(*     fallback, ranking and the applied-status annotation;                *)
(*   - DSPyJobService, LocationService, RankingService: the collaborators  *)
(*     SmartJobService calls.                                              *)
(*                                                                         *)
(* Specifications: SpecClient (one client call at a time), SpecBatch       *)
(* (concurrent client calls), Spec (one smart_search call), SpecResolve    *)
(* (the location resolver alone), SpecRank (the ranker alone).             *)
(*                                                                         *)
(* Conventions.  A Python string holding a geographic code is a sequence   *)
(* of digits ("75056" is <<7,5,0,5,6>>); None and "" are both <<>>, the    *)
(* code only ever tests such values for truthiness.  Other Python values   *)
(* (filters, keywords) are strings, None being "None".  A dict is a        *)
(* function whose DOMAIN is the set of keys present.                       *)
(***************************************************************************)
EXTENDS Integers, Sequences, FiniteSets, TLC

VARIABLES
    \* ---- FranceTravailService (one instance, module-level singleton)
    access_token,   \* self.access_token: 0 is None, n > 0 the n-th token issued
    token_expiry,   \* self.token_expiry
    token_valid_until, \* when the job board stops accepting the cached token
    now,            \* time.time()
    exchanges,      \* number of tokens the token endpoint has issued so far
    ncalls,         \* number of search_jobs calls started so far
    call,           \* the search_jobs call in progress (SpecClient)
    sent,           \* the search requests the call in progress has issued
    \* ---- RankingService
    has_gemini,     \* self.has_gemini, set at construction
    \* ---- one SmartJobService.smart_search call
    pc,             \* where the call stands
    query,          \* its query argument
    variations,     \* the flattened variations
    vi,             \* index of the variation the task loop works on
    resolved,       \* per variation, what _resolve_location returned
    tasks,          \* the search tasks, in submission order
    results_list,   \* per task, its result or exception once finished
    all_jobs,       \* the merged postings, then the fallback's
    fallbacks,      \* the national fallback searches issued (their arguments)
    fallback_res,   \* the outcome of the national fallback search
    returned,       \* the list the call returned
    planner_out,    \* what the reasoning collaborator did when called
    raw_variations, \* what predict_params returned
    reranked_jobs,  \* what compute_similarity_ranking returned
    applied_job_ids, \* the job ids of the user's applications
    \* ---- RankingService.compute_similarity_ranking called on a list, then
    \* ---- on the same list again, then on what the first call returned
    rk_pc,          \* where the calls stand
    rk_jobs,        \* the jobs argument as the caller built it
    rk_list,        \* the caller's list: its dicts are written in place
    rk_query,       \* the query argument of the calls
    rk_env,         \* what the embedding collaborator does when called
    rk_out,         \* what the first call returned
    rk_same,        \* what the call on the same list returned
    rk_again,       \* what the call on the first call's result returned
    \* ---- one SmartJobService._resolve_location call
    rs_pc,          \* where the call stands
    rs_raw,         \* its raw argument
    rs_hint,        \* its type_hint argument
    rs_geo,         \* what the three geo endpoints answer when queried
    rs_out,         \* what the call returned
    \* ---- a batch of concurrent search_jobs calls on the one client
    bcalls,         \* per call of the batch, where it stands and its token
    bsent,          \* the search requests the batch has issued
    responses       \* the token responses that carried a token, in order of reception

clientVars == <<access_token, token_expiry, token_valid_until, now, exchanges, ncalls, call, sent>>

orchVars == <<has_gemini, pc, query, variations, vi, resolved, tasks, results_list,
              all_jobs, fallbacks, fallback_res, returned, planner_out,
              raw_variations, reranked_jobs, applied_job_ids>>

rankVars == <<rk_pc, rk_jobs, rk_list, rk_query, rk_env, rk_out, rk_same, rk_again>>

resolveVars == <<rs_pc, rs_raw, rs_hint, rs_geo, rs_out>>

batchVars == <<bcalls, bsent, responses>>

vars == <<access_token, token_expiry, token_valid_until, now, exchanges, ncalls, call, sent,
          has_gemini, pc, query, variations, vi, resolved, tasks, results_list,
          all_jobs, fallbacks, fallback_res, returned, planner_out, raw_variations,
          reranked_jobs, applied_job_ids,
          rk_pc, rk_jobs, rk_list, rk_query, rk_env, rk_out, rk_same, rk_again,
          rs_pc, rs_raw, rs_hint, rs_geo, rs_out, bcalls, bsent, responses>>

----------------------------------------------------------------------------
(* Bounds of the model *)

MaxCalls == 2
MaxTime == 90

(* Program constants *)

DefaultDistance == 25
TokenMargin == 60

----------------------------------------------------------------------------
(* Python values *)

None == "None"

\* Values whose Python type matters: None, a str, an int.
PyNone == [t |-> "none"]
PyStr == [t |-> "str"]
PyInt(n) == [t |-> "int", v |-> n]

\* Truthiness of a filter value (a Python str, bool or None).
Truthy(v) == v \notin {"None", "False", ""}

\* d[k] = v on a dict.
Put(d, k, v) == [x \in (DOMAIN d) \cup {k} |-> IF x = k THEN v ELSE d[x]]

\* kwargs.get(k) for the filters of search_jobs.
KwGet(a, k) == IF k \in DOMAIN a THEN a[k] ELSE None

\* A code argument of search_jobs (location, departement, region), default None.
ArgCode(a, k) == IF k \in DOMAIN a THEN a[k] ELSE <<>>


----------------------------------------------------------------------------
(* Job postings as the job board returns them: dicts with "id", "intitule" *)
(* and "description".  id 0 stands for a missing, None or empty id.  A     *)
(* description is its length in characters and what it is about.           *)

Job1a == [id |-> 1, intitule |-> "Dev Python",
          description |-> [len |-> 3000, topic |-> "python"]]
Job1b == [id |-> 1, intitule |-> "Dev Python (bis)",
          description |-> [len |-> 40, topic |-> "python"]]
Job2 == [id |-> 2, intitule |-> "Vendeur",
         description |-> [len |-> 120, topic |-> "sales"]]
Job3 == [id |-> 3, intitule |-> "",
         description |-> [len |-> 5, topic |-> "none"]]
JobNoId == [id |-> 0, intitule |-> "Stage",
            description |-> [len |-> 60, topic |-> "python"]]

----------------------------------------------------------------------------
(* FranceTravailService.search_jobs: the request it builds *)

Distance_Fixed(a) == DefaultDistance

\* The call's distance argument, 25 when the caller gives none.
Distance(a) == IF "distance" \in DOMAIN a THEN a["distance"] ELSE DefaultDistance

\* The filters: motsCles and range always, each other one when truthy.
FilterParams(a) ==
    LET p0 == [motsCles |-> a["keywords"], range |-> "0-49"]
        p1 == IF Truthy(KwGet(a, "contract_type"))
              THEN Put(p0, "typeContrat", a["contract_type"]) ELSE p0
        p2 == IF Truthy(KwGet(a, "is_full_time"))
              THEN Put(p1, "tempsPlein", a["is_full_time"]) ELSE p1
        p3 == IF KwGet(a, "sort_by") = "date" THEN Put(p2, "sort", 1) ELSE p2
        p4 == IF Truthy(KwGet(a, "experience"))
              THEN Put(p3, "experience", a["experience"]) ELSE p3
        p5 == IF Truthy(KwGet(a, "experience_exigence"))
              THEN Put(p4, "experienceExigence", a["experience_exigence"]) ELSE p4
        p6 == IF Truthy(KwGet(a, "grand_domaine"))
              THEN Put(p5, "grandDomaine", a["grand_domaine"]) ELSE p5
        p7 == IF Truthy(KwGet(a, "published_since"))
              THEN Put(p6, "publieeDepuis", a["published_since"]) ELSE p6
    IN p7

\* Explicit region and department arguments.
ScopeParams(p, region, departement) ==
    LET p1 == IF region # <<>> THEN Put(p, "region", region) ELSE p
        p2 == IF departement # <<>> THEN Put(p1, "departement", departement) ELSE p1
    IN p2

IsParis_DeptOnly(location) == location = <<7, 5>>

IsParis_Prefix(location) ==
    Len(location) >= 2 /\ location[1] = 7 /\ location[2] = 5

\* The special handling of Paris: the two literal values the code tests.
IsParis(location) == location = <<7, 5, 0, 5, 6>> \/ location = <<7, 5>>

LocationParams_TwoDigitDept(p, location, distance) ==
    IF location # <<>>
    THEN IF IsParis(location)
         THEN Put(p, "departement", <<7, 5>>)
         ELSE IF Len(location) = 2
              THEN Put(p, "departement", location)
              ELSE Put(Put(p, "commune", location), "distance", distance)
    ELSE p

\* The location argument, a commune code.
LocationParams(p, location, distance) ==
    IF location # <<>>
    THEN IF IsParis(location)
         THEN Put(p, "departement", <<7, 5>>)
         ELSE Put(Put(p, "commune", location), "distance", distance)
    ELSE p

BuildParams(a) ==
    LocationParams(
        ScopeParams(FilterParams(a), ArgCode(a, "region"), ArgCode(a, "departement")),
        ArgCode(a, "location"), Distance(a))

RaiseForStatus_ErrorsOnly(status) == status \in 400..599

\* response.raise_for_status() raises on every status outside 2xx.
RaiseForStatus(status) == status \notin 200..299

\* What search_jobs does with the job board's response.
HandleResponse(status, data) ==
    IF status = 204 THEN [outcome |-> "returned", result |-> <<>>]
    ELSE IF RaiseForStatus(status) THEN [outcome |-> "raised", result |-> <<>>]
    ELSE [outcome |-> "returned",
          result |-> IF "resultats" \in DOMAIN data THEN data["resultats"] ELSE <<>>]

\* _get_access_token returns the cached token without an exchange.
TokenCached == access_token # 0 /\ now < token_expiry

----------------------------------------------------------------------------
(* The inputs of the client specification *)

Locations == {<<>>, <<7, 5, 0, 5, 6>>, <<7, 5>>, <<7, 5, 1, 0, 1>>,
              <<6, 9>>, <<6, 9, 1, 2, 3>>}
Departements == {<<>>, <<6, 9>>}
Regions == {<<>>, <<8, 4>>}

NoFilters == [keywords |-> "python"]
SomeFilters == [keywords |-> "python", contract_type |-> "CDI",
                is_full_time |-> "True", experience |-> "2",
                experience_exigence |-> "E"]
FalsyFilters == [keywords |-> "vente", contract_type |-> None,
                 is_full_time |-> "False", experience |-> None,
                 experience_exigence |-> None, sort_by |-> "date",
                 grand_domaine |-> "M18", published_since |-> "7"]

WithCode(a, k, code) == IF code = <<>> THEN a ELSE Put(a, k, code)

ClientArgs ==
    { WithCode(WithCode(WithCode(f, "location", l), "departement", d), "region", r) :
        f \in {NoFilters, SomeFilters, FalsyFilters},
        l \in Locations, d \in Departements, r \in Regions }
    \cup
    { Put(WithCode(NoFilters, "location", l), "distance", 10) : l \in Locations }

Statuses == {200, 204, 206, 301, 404, 500}
Bodies == {<<>>, [resultats |-> <<>>], [resultats |-> <<Job1a, Job2>>]}
ExpiresIns == {60, 120}

\* What the token endpoint can answer besides a complete token response: a
\* transport error or an error status, or a 200 whose JSON lacks the token,
\* or carries a token (a non-empty string, good for `lifetime` seconds)
\* without an expires_in that can be added to a time.
TokenBodies ==
    {<<>>, [access_token |-> "T"], [access_token |-> "T", expires_in |-> PyNone],
     [access_token |-> "T", expires_in |-> PyStr]}

FailedAnswers ==
    {[kind |-> "error", data |-> <<>>, lifetime |-> 0]}
    \cup {[kind |-> "json", data |-> d, lifetime |-> n] : d \in TokenBodies, n \in ExpiresIns}
TickSteps == {30}

IdleCall == [pc |-> "idle", args |-> <<>>, token |-> 0, status |-> 0, result |-> <<>>]

----------------------------------------------------------------------------
(* FranceTravailService.search_jobs as a process: one action per stretch   *)
(* of code between two awaits.                                             *)

\* search_jobs is called: _get_access_token either returns the cached token,
\* and the search request goes out, or starts the token exchange.
CallStart(a) ==
    /\ call.pc \in {"idle", "returned", "raised"}
    /\ ncalls < MaxCalls
    /\ ncalls' = ncalls + 1
    /\ IF TokenCached
       THEN /\ call' = [IdleCall EXCEPT !.pc = "get", !.args = a, !.token = access_token]
            /\ sent' = <<[token |-> access_token, params |-> BuildParams(a)]>>
       ELSE /\ call' = [IdleCall EXCEPT !.pc = "post", !.args = a]
            /\ sent' = <<>>
    /\ UNCHANGED <<orchVars, rankVars, resolveVars, batchVars>>
    /\ UNCHANGED <<access_token, token_expiry, token_valid_until, now, exchanges>>

\* The token endpoint answers 200 with a token and a numeric expires_in: both
\* cache fields are written, then _get_access_token leaves its
\* `async with httpx.AsyncClient()`, whose exit awaits the closing of the
\* connections: the call yields with the cache written and no search
\* request issued yet.
ExchangeOk(expires_in) ==
    /\ call.pc = "post"
    /\ exchanges' = exchanges + 1
    /\ access_token' = exchanges + 1
    /\ token_expiry' = now + expires_in - TokenMargin
    /\ token_valid_until' = now + expires_in
    /\ call' = [call EXCEPT !.pc = "token", !.token = exchanges + 1]
    /\ UNCHANGED <<orchVars, rankVars, resolveVars, batchVars>>
    /\ UNCHANGED <<now, ncalls, sent>>

\* The call resumes with the token _get_access_token returned: it builds
\* the parameters and hands the search request to the HTTP client.
SearchSend ==
    /\ call.pc = "token"
    /\ call' = [call EXCEPT !.pc = "get"]
    /\ sent' = Append(sent, [token |-> call.token, params |-> BuildParams(call.args)])
    /\ UNCHANGED <<orchVars, rankVars, resolveVars, batchVars>>
    /\ UNCHANGED <<access_token, token_expiry, token_valid_until, now, exchanges, ncalls>>

\* data["access_token"] is read and cached before data["expires_in"] is.
TokenWritten(ans) == ans.kind = "json" /\ "access_token" \in DOMAIN ans.data

\* The token exchange fails and the call raises: on a transport error, an
\* error status or a body without access_token the cache is untouched; on a
\* body with a token but no usable expires_in the token is already cached
\* when the computation of the expiry raises, and the expiry is not written.
ExchangeFail(ans) ==
    /\ call.pc = "post"
    /\ call' = [call EXCEPT !.pc = "raised"]
    /\ IF TokenWritten(ans)
       THEN /\ exchanges' = exchanges + 1
            /\ access_token' = exchanges + 1
            /\ token_valid_until' = now + ans.lifetime
       ELSE UNCHANGED <<access_token, token_valid_until, exchanges>>
    /\ UNCHANGED <<orchVars, rankVars, resolveVars, batchVars>>
    /\ UNCHANGED <<token_expiry, now, ncalls, sent>>

\* The job board answers the search request.
SearchResponse(status, data) ==
    /\ call.pc = "get"
    /\ LET h == HandleResponse(status, data)
       IN call' = [call EXCEPT !.pc = h.outcome, !.status = status, !.result = h.result]
    /\ UNCHANGED <<orchVars, rankVars, resolveVars, batchVars>>
    /\ UNCHANGED <<access_token, token_expiry, token_valid_until, now, exchanges, ncalls, sent>>

\* The search request fails in transport.
SearchError ==
    /\ call.pc = "get"
    /\ call' = [call EXCEPT !.pc = "raised"]
    /\ UNCHANGED <<orchVars, rankVars, resolveVars, batchVars>>
    /\ UNCHANGED <<access_token, token_expiry, token_valid_until, now, exchanges, ncalls, sent>>

Tick(d) ==
    /\ now + d <= MaxTime
    /\ now' = now + d
    /\ UNCHANGED <<orchVars, rankVars, resolveVars, batchVars>>
    /\ UNCHANGED <<access_token, token_expiry, token_valid_until, exchanges, ncalls, call, sent>>

InitClient ==
    /\ access_token = 0
    /\ token_expiry = 0
    /\ token_valid_until = 0
    /\ now = 0
    /\ exchanges = 0
    /\ ncalls = 0
    /\ call = IdleCall
    /\ sent = <<>>
    /\ has_gemini = TRUE
    /\ pc = "off"
    /\ query = None
    /\ variations = <<>>
    /\ vi = 0
    /\ resolved = <<>>
    /\ tasks = <<>>
    /\ results_list = <<>>
    /\ all_jobs = <<>>
    /\ fallbacks = <<>>
    /\ fallback_res = [state |-> "none", jobs |-> <<>>]
    /\ returned = <<>>
    /\ planner_out = [kind |-> "none"]
    /\ reranked_jobs = <<>>
    /\ applied_job_ids = {}
    /\ raw_variations = [t |-> "none"]
    /\ rk_pc = "off"
    /\ rk_jobs = <<>>
    /\ rk_list = <<>>
    /\ rk_query = None
    /\ rk_env = [kind |-> "raise"]
    /\ rk_out = <<>>
    /\ rk_same = <<>>
    /\ rk_again = <<>>
    /\ rs_pc = "off"
    /\ rs_raw = <<>>
    /\ rs_hint = "unknown"
    /\ rs_geo = <<>>
    /\ rs_out = <<>>
    /\ bcalls = <<>>
    /\ bsent = <<>>
    /\ responses = <<>>

NextClient ==
    \/ \E a \in ClientArgs : CallStart(a)
    \/ \E e \in ExpiresIns : ExchangeOk(e)
    \/ SearchSend
    \/ \E ans \in FailedAnswers : ExchangeFail(ans)
    \/ \E s \in Statuses, d \in Bodies : SearchResponse(s, d)
    \/ SearchError
    \/ \E d \in TickSteps : Tick(d)

SpecClient == InitClient /\ [][NextClient]_vars


----------------------------------------------------------------------------
(* DSPyJobService.predict_params and the values the reasoning collaborator *)
(* can emit.  A Python value is tagged: t = "params" for a                 *)
(* FranceTravailParams object, "list" for a list, "none" for None.  A      *)
(* location_raw is a sequence of characters, None being <<>>.              *)

PyList(items) == [t |-> "list", items |-> items]

FranceTravailParams(kw, raw, type, level, exigence, contract, full) ==
    [t |-> "params", keywords |-> kw, location_raw |-> raw, location_type |-> type,
     experience_level |-> level, experience_exigence |-> exigence,
     contract_type |-> contract, is_full_time |-> full]

\* getattr(obj, name, default)
GetAttr(obj, name, default) ==
    IF obj.t = "params" /\ name \in DOMAIN obj THEN obj[name] ELSE default

DefaultQuery == "Find jobs matching my profile"

\* user_query = query or "Find jobs matching my profile"
UserQuery(q) == IF q \in {None, ""} THEN DefaultQuery ELSE q

\* The fallback variation of predict_params.
SafeParams(q) == FranceTravailParams(q, <<>>, "unknown", None, None, None, None)

\* predict_params: the collaborator's variations as received, or the one
\* fallback variation when the call raises or len(variations) raises (None
\* and a FranceTravailParams object have no len; a list and a str have).
PredictParams(q, out) ==
    IF out.kind = "raise" THEN PyList(<<SafeParams(q)>>)
    ELSE IF out.value.t \in {"none", "params"} THEN PyList(<<SafeParams(q)>>)
    ELSE out.value

RECURSIVE FlattenItems(_)
FlattenItems(items) ==
    IF items = <<>> THEN <<>>
    ELSE LET v == Head(items)
         IN (IF v.t = "list" THEN v.items ELSE <<v>>) \o FlattenItems(Tail(items))

\* The flattening of smart_search: one level of nesting is unwrapped.
Flatten(raw) == IF raw.t = "list" THEN FlattenItems(raw.items) ELSE <<raw>>

----------------------------------------------------------------------------
(* LocationService: each lookup returns the geo source's list, or [] when  *)
(* the query is too short or the request fails.                            *)

SearchRegions(q, resp) ==
    IF Len(q) < 2 THEN <<>> ELSE IF resp.ok THEN resp.json ELSE <<>>

SearchDepartments(q, resp) ==
    IF q = <<>> THEN <<>> ELSE IF resp.ok THEN resp.json ELSE <<>>

SearchCities(q, resp) ==
    IF Len(q) < 2 THEN <<>> ELSE IF resp.ok THEN resp.json ELSE <<>>

\* meta of a resolved city: its department code when the hit carries one.
CityMeta(city) ==
    IF "departement" \in DOMAIN city /\ "code" \in DOMAIN city["departement"]
    THEN [dept |-> city["departement"]["code"]]
    ELSE <<>>

ResolveLocation_NoEarlyStop(raw, type_hint, rr, dr, cr) ==
    LET tryR == type_hint \in {"region", "unknown"}
        regions == IF tryR THEN SearchRegions(raw, rr) ELSE <<>>
        tryD == type_hint \in {"departement", "unknown"}
        depts == IF tryD THEN SearchDepartments(raw, dr) ELSE <<>>
        tryC == type_hint \in {"commune", "unknown"}
        cities == IF tryC THEN SearchCities(raw, cr) ELSE <<>>
        lookups == (IF tryR THEN <<"region">> ELSE <<>>)
                   \o (IF tryD THEN <<"departement">> ELSE <<>>)
                   \o (IF tryC THEN <<"commune">> ELSE <<>>)
    IN IF regions # <<>>
       THEN [params |-> [region |-> regions[1]["code"]], meta |-> <<>>, lookups |-> lookups]
       ELSE IF depts # <<>>
       THEN [params |-> [departement |-> depts[1]["code"]], meta |-> <<>>,
             lookups |-> lookups]
       ELSE IF cities # <<>>
       THEN [params |-> [location |-> cities[1]["code"]], meta |-> CityMeta(cities[1]),
             lookups |-> lookups]
       ELSE [params |-> <<>>, meta |-> <<>>, lookups |-> lookups]

\* SmartJobService._resolve_location; rr, dr, cr are what the region,
\* department and commune endpoints answer when queried.  lookups lists
\* the endpoints queried, in order.
ResolveLocation(raw, type_hint, rr, dr, cr) ==
    LET tryR == type_hint \in {"region", "unknown"}
        regions == IF tryR THEN SearchRegions(raw, rr) ELSE <<>>
        tryD == regions = <<>> /\ type_hint \in {"departement", "unknown"}
        depts == IF tryD THEN SearchDepartments(raw, dr) ELSE <<>>
        tryC == regions = <<>> /\ depts = <<>> /\ type_hint \in {"commune", "unknown"}
        cities == IF tryC THEN SearchCities(raw, cr) ELSE <<>>
        lookups == (IF tryR THEN <<"region">> ELSE <<>>)
                   \o (IF tryD THEN <<"departement">> ELSE <<>>)
                   \o (IF tryC THEN <<"commune">> ELSE <<>>)
    IN IF regions # <<>>
       THEN [params |-> [region |-> regions[1]["code"]], meta |-> <<>>, lookups |-> lookups]
       ELSE IF depts # <<>>
       THEN [params |-> [departement |-> depts[1]["code"]], meta |-> <<>>,
             lookups |-> lookups]
       ELSE IF cities # <<>>
       THEN [params |-> [location |-> cities[1]["code"]], meta |-> CityMeta(cities[1]),
             lookups |-> lookups]
       ELSE [params |-> <<>>, meta |-> <<>>, lookups |-> lookups]

Unresolved == [params |-> <<>>, meta |-> <<>>, lookups |-> <<>>]

----------------------------------------------------------------------------
(* SmartJobService.smart_search: building the search tasks *)

\* dict(a, **b)
Merged(a, b) ==
    [k \in (DOMAIN a) \cup (DOMAIN b) |-> IF k \in DOMAIN b THEN b[k] ELSE a[k]]

\* The keyword and filter arguments both tasks of a variation carry.
FilterArgs(v) ==
    [keywords |-> GetAttr(v, "keywords", ""),
     experience |-> GetAttr(v, "experience_level", None),
     experience_exigence |-> GetAttr(v, "experience_exigence", None),
     contract_type |-> GetAttr(v, "contract_type", None),
     is_full_time |-> GetAttr(v, "is_full_time", None)]

PrimaryArgs_RawLocation(v, ft_location_params) ==
    IF ft_location_params = <<>> /\ GetAttr(v, "location_raw", <<>>) # <<>>
    THEN Merged(FilterArgs(v), [location |-> GetAttr(v, "location_raw", <<>>)])
    ELSE Merged(FilterArgs(v), ft_location_params)

\* Task A: the primary search, with the resolved location parameters.
PrimaryArgs(v, ft_location_params) == Merged(FilterArgs(v), ft_location_params)

\* Task B: the secondary search, on the department of the resolved city.
SecondaryArgs(v, location_meta) ==
    Merged(FilterArgs(v), [departement |-> location_meta["dept"]])

NeedsSecondary_Inverted(ft_location_params, location_meta) ==
    "dept" \in DOMAIN location_meta /\ "departement" \in DOMAIN ft_location_params

\* The condition under which Task B is added.
NeedsSecondary(ft_location_params, location_meta) ==
    "dept" \in DOMAIN location_meta /\ "departement" \notin DOMAIN ft_location_params

\* The tasks one variation adds; k is its index among the variations.
VariationTasks(k, v, loc) ==
    <<[var |-> k, role |-> "primary", args |-> PrimaryArgs(v, loc.params)]>>
    \o (IF NeedsSecondary(loc.params, loc.meta)
        THEN <<[var |-> k, role |-> "secondary", args |-> SecondaryArgs(v, loc.meta)]>>
        ELSE <<>>)

----------------------------------------------------------------------------
(* SmartJobService.smart_search: gather, merge and national fallback *)

Pending == [state |-> "pending", jobs |-> <<>>]

\* What one search_jobs call comes to: an exception when the token exchange
\* or the transport fails, otherwise what it makes of the response.
ClientOutcome(env) ==
    IF env.kind # "http" THEN [state |-> "exc", jobs |-> <<>>]
    ELSE LET h == HandleResponse(env.status, env.data)
         IN IF h.outcome = "raised" THEN [state |-> "exc", jobs |-> <<>>]
            ELSE [state |-> "ok", jobs |-> h.result]

GatherOutcome_Propagate(rl) ==
    IF \E i \in 1..Len(rl) : rl[i].state = "exc" THEN "raise"
    ELSE IF \A i \in 1..Len(rl) : rl[i].state # "pending" THEN "results"
    ELSE "waiting"

\* asyncio.gather(*tasks, return_exceptions=True): returns once every task
\* has finished, exceptions being results.
GatherOutcome(rl) ==
    IF \A i \in 1..Len(rl) : rl[i].state # "pending" THEN "results" ELSE "waiting"

RECURSIVE MergeJobs_KeepNoId(_, _, _)
MergeJobs_KeepNoId(res, acc, seen_ids) ==
    IF res = <<>> THEN [all_jobs |-> acc, seen_ids |-> seen_ids]
    ELSE LET job == Head(res)
         IN IF job.id = 0 \/ job.id \notin seen_ids
            THEN MergeJobs_KeepNoId(Tail(res), Append(acc, job), seen_ids \cup {job.id})
            ELSE MergeJobs_KeepNoId(Tail(res), acc, seen_ids)

RECURSIVE MergeJobs_LastWins(_, _, _)
MergeJobs_LastWins(res, acc, seen_ids) ==
    IF res = <<>> THEN [all_jobs |-> acc, seen_ids |-> seen_ids]
    ELSE LET job == Head(res)
         IN IF job.id = 0 THEN MergeJobs_LastWins(Tail(res), acc, seen_ids)
            ELSE IF job.id \notin seen_ids
            THEN MergeJobs_LastWins(Tail(res), Append(acc, job), seen_ids \cup {job.id})
            ELSE MergeJobs_LastWins(Tail(res),
                     [i \in 1..Len(acc) |-> IF acc[i].id = job.id THEN job ELSE acc[i]],
                     seen_ids)

RECURSIVE MergeJobs(_, _, _)
\* The inner loop of the merge over one task's result.
MergeJobs(res, acc, seen_ids) ==
    IF res = <<>> THEN [all_jobs |-> acc, seen_ids |-> seen_ids]
    ELSE LET job == Head(res)
         IN IF job.id # 0 /\ job.id \notin seen_ids
            THEN MergeJobs(Tail(res), Append(acc, job), seen_ids \cup {job.id})
            ELSE MergeJobs(Tail(res), acc, seen_ids)

RECURSIVE MergeResults(_, _, _)
\* The merge loop over results_list: only lists (successes) are read.
MergeResults(rl, acc, seen_ids) ==
    IF rl = <<>> THEN acc
    ELSE IF Head(rl).state = "ok"
         THEN LET m == MergeJobs(Head(rl).jobs, acc, seen_ids)
              IN MergeResults(Tail(rl), m.all_jobs, m.seen_ids)
         ELSE MergeResults(Tail(rl), acc, seen_ids)

NeedsFallback_AtMostOne(jobs) == Len(jobs) <= 1

\* if not all_jobs
NeedsFallback(jobs) == jobs = <<>>

\* The keywords of the national fallback search.
FallbackKeywords(vs, user_query) ==
    IF vs # <<>> THEN GetAttr(vs[1], "keywords", user_query) ELSE user_query

\* The arguments of the national fallback search: keywords only.
FallbackArgs(vs, user_query) == [keywords |-> FallbackKeywords(vs, user_query)]

FallbackFailure_Propagate == "raised"

\* except Exception around the national fallback: return [].
FallbackFailure == "done"

----------------------------------------------------------------------------
(* RankingService.compute_similarity_ranking.  Embedding vectors are       *)
(* integer vectors whose norm is an integer: their dot products and norms  *)
(* are exact in float64, and the division, the products and the sum that   *)
(* follow are float64 operations, rounded to nearest, ties to even.        *)

DescLimit == 2000
MinDescLen == 10
EmbedCap == 100

Min(a, b) == IF a <= b THEN a ELSE b

\* job.get("description", "")[:2000]
TruncDesc(job) == [job.description EXCEPT !.len = Min(job.description.len, DescLimit)]

\* A job is skipped when it has no title and under 10 characters of description.
Embeddable(job) == ~(job.intitule = "" /\ TruncDesc(job).len < MinDescLen)

\* valid_jobs: the embeddable jobs in input order, the first 100 of them.
ValidJobs(jobs) ==
    LET v == SelectSeq(jobs, Embeddable)
    IN SubSeq(v, 1, Min(Len(v), EmbedCap))

\* Natural numbers of any size, as sequences of 15-bit limbs, the least
\* significant first and the most significant not 0; 0 is <<>>.
LimbBits == 15
Limb == 2^LimbBits

RECURSIVE BigTrim(_)
BigTrim(a) ==
    IF a = <<>> THEN a
    ELSE IF a[Len(a)] = 0 THEN BigTrim(SubSeq(a, 1, Len(a) - 1))
    ELSE a

RECURSIVE BigOf(_)
BigOf(n) == IF n = 0 THEN <<>> ELSE <<n % Limb>> \o BigOf(n \div Limb)

RECURSIVE BigInt(_)
BigInt(a) == IF a = <<>> THEN 0 ELSE a[1] + Limb * BigInt(Tail(a))

RECURSIVE BigAddC(_, _, _)
BigAddC(a, b, c) ==
    IF a = <<>> /\ b = <<>> THEN (IF c = 0 THEN <<>> ELSE <<c>>)
    ELSE LET x == IF a = <<>> THEN 0 ELSE a[1]
             y == IF b = <<>> THEN 0 ELSE b[1]
             t == x + y + c
         IN <<t % Limb>> \o BigAddC(IF a = <<>> THEN a ELSE Tail(a),
                                    IF b = <<>> THEN b ELSE Tail(b), t \div Limb)

BigAdd(a, b) == BigAddC(a, b, 0)

\* a - b - br for a >= b + br, limb by limb.
RECURSIVE BigSubB(_, _, _)
BigSubB(a, b, br) ==
    IF a = <<>> THEN <<>>
    ELSE LET y == IF b = <<>> THEN 0 ELSE b[1]
             d == a[1] - y - br
         IN <<IF d < 0 THEN d + Limb ELSE d>>
            \o BigSubB(Tail(a), IF b = <<>> THEN b ELSE Tail(b), IF d < 0 THEN 1 ELSE 0)

BigSub(a, b) == BigTrim(BigSubB(a, b, 0))

RECURSIVE BigLess(_, _)
BigLess(a, b) ==
    IF Len(a) # Len(b) THEN Len(a) < Len(b)
    ELSE IF a = <<>> THEN FALSE
    ELSE IF a[Len(a)] # b[Len(b)] THEN a[Len(a)] < b[Len(b)]
    ELSE BigLess(SubSeq(a, 1, Len(a) - 1), SubSeq(b, 1, Len(b) - 1))

\* a * k + c for k and c below Limb.
RECURSIVE BigMulC(_, _, _)
BigMulC(a, k, c) ==
    IF a = <<>> THEN (IF c = 0 THEN <<>> ELSE <<c>>)
    ELSE LET t == a[1] * k + c
         IN <<t % Limb>> \o BigMulC(Tail(a), k, t \div Limb)

BigScale(a, k) == BigTrim(BigMulC(a, k, 0))

RECURSIVE BigMul(_, _)
BigMul(a, b) ==
    IF b = <<>> THEN <<>>
    ELSE LET rest == BigMul(a, Tail(b))
         IN BigAdd(BigScale(a, b[1]), IF rest = <<>> THEN rest ELSE <<0>> \o rest)

\* Quotient and remainder of a by d, 0 < d <= 2 * Limb.
RECURSIVE BigDiv(_, _)
BigDiv(a, d) ==
    IF a = <<>> THEN [q |-> <<>>, r |-> 0]
    ELSE LET hi == BigDiv(Tail(a), d)
             cur == Limb * hi.r + a[1]
         IN [q |-> <<cur \div d>> \o hi.q, r |-> cur % d]

\* a * 2^n and a \div 2^n.
BigShl(a, n) ==
    IF a = <<>> THEN a
    ELSE [i \in 1..(n \div LimbBits) |-> 0] \o BigScale(a, 2^(n % LimbBits))

BigShr(a, n) ==
    IF n \div LimbBits >= Len(a) THEN <<>>
    ELSE BigTrim(BigDiv(SubSeq(a, n \div LimbBits + 1, Len(a)), 2^(n % LimbBits)).q)

\* Bit i of a, bit 0 the least significant.
BigBit(a, i) ==
    IF i \div LimbBits >= Len(a) THEN 0
    ELSE (a[i \div LimbBits + 1] \div 2^(i % LimbBits)) % 2

\* The n low bits of a are all 0.
BigLowZero(a, n) ==
    /\ \A i \in 1..Min(n \div LimbBits, Len(a)) : a[i] = 0
    /\ n \div LimbBits < Len(a) => a[n \div LimbBits + 1] % 2^(n % LimbBits) = 0

RECURSIVE BitsOf(_)
BitsOf(n) == IF n = 0 THEN 0 ELSE 1 + BitsOf(n \div 2)

\* The number of significant bits of a.
BigBits(a) == IF a = <<>> THEN 0 ELSE LimbBits * (Len(a) - 1) + BitsOf(a[Len(a)])

\* A float64 is sign * m * 2^e, m a natural number of at most 53 bits (or
\* 2^53 after a carry out of the rounding); 0.0 has m = <<>>.
Mantissa == 53

DblZero == [sign |-> 1, m |-> <<>>, e |-> 0]

DblOf(n) == [sign |-> IF n < 0 THEN -1 ELSE 1, m |-> BigOf(IF n < 0 THEN -n ELSE n), e |-> 0]

\* The float64 nearest to sign * n * 2^e (n # 0), ties to the even mantissa.
DblRound(sign, n, e) ==
    LET len == BigBits(n)
    IN IF len <= Mantissa THEN [sign |-> sign, m |-> n, e |-> e]
       ELSE LET sh == len - Mantissa
                q == BigShr(n, sh)
                up == /\ BigBit(n, sh - 1) = 1
                      /\ (~BigLowZero(n, sh - 1) \/ BigBit(q, 0) = 1)
            IN [sign |-> sign, m |-> IF up THEN BigAdd(q, <<1>>) ELSE q, e |-> e + sh]

DblMul(x, y) ==
    IF x.m = <<>> \/ y.m = <<>> THEN DblZero
    ELSE DblRound(x.sign * y.sign, BigMul(x.m, y.m), x.e + y.e)

DblAdd(x, y) ==
    IF x.m = <<>> THEN y
    ELSE IF y.m = <<>> THEN x
    ELSE LET e == Min(x.e, y.e)
             a == BigShl(x.m, x.e - e)
             b == BigShl(y.m, y.e - e)
         IN IF x.sign = y.sign THEN DblRound(x.sign, BigAdd(a, b), e)
            ELSE IF a = b THEN DblZero
            ELSE IF BigLess(a, b) THEN DblRound(y.sign, BigSub(b, a), e)
            ELSE DblRound(x.sign, BigSub(a, b), e)

\* The float64 quotient of the integers n and d, 0 < d <= 2 * Limb: n / d
\* is cut after 90 binary places and a last bit records whether anything
\* was cut off, which is all that rounding to 53 bits needs.
DblQuot(n, d) ==
    IF n = 0 THEN DblZero
    ELSE LET qr == BigDiv(BigShl(BigOf(IF n < 0 THEN -n ELSE n), 6 * LimbBits), d)
             cut == BigAdd(BigScale(BigTrim(qr.q), 2), IF qr.r = 0 THEN <<>> ELSE <<1>>)
         IN DblRound(IF n < 0 THEN -1 ELSE 1, cut, -(6 * LimbBits + 1))

\* int(x): truncation toward zero.
IntOf(x) ==
    x.sign * BigInt(IF x.e >= 0 THEN BigShl(x.m, x.e) ELSE BigShr(x.m, -x.e))

Dot(a, b) == a[1] * b[1] + a[2] * b[2]

\* np.linalg.norm
Norm(v) == CHOOSE n \in 0..Dot(v, v) : n * n = Dot(v, v)

\* One entry of scores_p / scores_q: the dot product divided by the product
\* of the norms, times 100; 0.0 when a norm is 0.
Score100(j, v) ==
    IF Norm(v) > 0 /\ Norm(j) > 0
    THEN DblMul(DblQuot(Dot(j, v), Norm(v) * Norm(j)), DblOf(100))
    ELSE DblZero

\* The literals 0.7 and 0.3: the float64 nearest to 7/10 and to 3/10.
QueryWeight == DblQuot(7, 10)
ProfileWeight == DblQuot(3, 10)

\* final_scores: (0.7 * scores_q) + (0.3 * scores_p) with a query vector,
\* scores_p without.
FinalScore(j, pvec, qvec, hasq) ==
    IF hasq
    THEN DblAdd(DblMul(QueryWeight, Score100(j, qvec)),
                DblMul(ProfileWeight, Score100(j, pvec)))
    ELSE Score100(j, pvec)

\* The embedding vectors the specifications draw from: the vector of a job
\* text by its topic, and the pairs (profile vector, query vector).
Docs == [python |-> <<3, 4>>, sales |-> <<0, 1>>, none |-> <<0, 0>>]

EmbedPairs ==
    {<<(<<3, 4>>), (<<0, -1>>)>>, <<(<<5, 12>>), (<<4, 3>>)>>,
     <<(<<0, 0>>), (<<4, 3>>)>>, <<(<<5, 12>>), (<<0, 0>>)>>,
     <<(<<1, 0>>), (<<4, 3>>)>>, <<(<<24, 7>>), (<<4, 3>>)>>,
     <<(<<1, 0>>), (<<0, 1>>)>>, <<(<<4, 3>>), (<<24, 7>>)>>,
     <<(<<-4, 3>>), (<<4, 3>>)>>, <<(<<4, 3>>), (<<4, 3>>)>>}

\* int(final_scores[i]) for those vectors, computed once.
KnownScores ==
    [k \in {<<Docs[t], pq[1], pq[2], h>> :
                t \in DOMAIN Docs, pq \in EmbedPairs, h \in BOOLEAN} |->
        IntOf(FinalScore(k[1], k[2], k[3], k[4]))]

\* final_score = int(final_scores[i])
RelevanceScore(j, pvec, qvec, hasq) ==
    IF <<j, pvec, qvec, hasq>> \in DOMAIN KnownScores
    THEN KnownScores[<<j, pvec, qvec, hasq>>]
    ELSE IntOf(FinalScore(j, pvec, qvec, hasq))

Reasoning_SuffixAt50(final_score, hasq) ==
    LET bucket == IF final_score >= 85 THEN "Excellent match (Top 1%)"
                  ELSE IF final_score >= 70 THEN "Tres pertinent"
                  ELSE IF final_score >= 50 THEN "Correspondance moyenne"
                  ELSE "Pertinence limitee"
    IN IF hasq /\ final_score >= 50 THEN bucket \o " . Aligne avec votre recherche"
       ELSE IF final_score >= 50 THEN bucket \o " . Aligne avec votre profil"
       ELSE bucket

\* The reasoning string of a score (written in ASCII: e for e-acute, "." for
\* the bullet).
Reasoning(final_score, hasq) ==
    LET bucket == IF final_score >= 85 THEN "Excellent match (Top 1%)"
                  ELSE IF final_score >= 70 THEN "Tres pertinent"
                  ELSE IF final_score >= 50 THEN "Correspondance moyenne"
                  ELSE "Pertinence limitee"
    IN IF hasq /\ final_score >= 60 THEN bucket \o " . Aligne avec votre recherche"
       ELSE IF final_score >= 60 THEN bucket \o " . Aligne avec votre profil"
       ELSE bucket

Scored_Accumulate(job, env, hasq) ==
    LET s == RelevanceScore(env.docs[TruncDesc(job).topic], env.p, env.q, hasq)
        t == IF "relevance_score" \in DOMAIN job THEN job.relevance_score + s ELSE s
    IN Merged(job, [relevance_score |-> t, relevance_reasoning |-> Reasoning(t, hasq)])

\* A job with its score and reasoning assigned.
Scored(job, env, hasq) ==
    LET s == RelevanceScore(env.docs[TruncDesc(job).topic], env.p, env.q, hasq)
    IN Merged(job, [relevance_score |-> s, relevance_reasoning |-> Reasoning(s, hasq)])

SortByScore_TiesReversed(jobs) ==
    LET n == Len(jobs)
        pos == [i \in 1..n |->
                  1 + Cardinality({j \in 1..n :
                        \/ jobs[j].relevance_score > jobs[i].relevance_score
                        \/ /\ jobs[j].relevance_score = jobs[i].relevance_score
                           /\ j > i})]
    IN [k \in 1..n |-> jobs[CHOOSE i \in 1..n : pos[i] = k]]

\* list.sort(key=relevance_score, reverse=True): descending and stable.  A
\* job comes after every job with a higher score and after the jobs with
\* its score that precede it in the list.
SortByScore(jobs) ==
    LET n == Len(jobs)
        pos == [i \in 1..n |->
                  1 + Cardinality({j \in 1..n :
                        \/ jobs[j].relevance_score > jobs[i].relevance_score
                        \/ /\ jobs[j].relevance_score = jobs[i].relevance_score
                           /\ j < i})]
    IN [k \in 1..n |-> jobs[CHOOSE i \in 1..n : pos[i] = k]]

\* The query is embedded, and counts for the reasoning, when it is truthy.
HasQuery(q) == q \notin {None, ""}

Rank_DropOnFailure(jobs, q, gemini, env) ==
    IF jobs = <<>> \/ ~gemini THEN jobs
    ELSE LET valid == ValidJobs(jobs)
         IN IF env.kind = "raise" THEN valid
            ELSE SortByScore([i \in 1..Len(valid) |-> Scored(valid[i], env, HasQuery(q))])

\* compute_similarity_ranking(profile, jobs, query); env is what the
\* embedding collaborator does when called.
Rank(jobs, q, gemini, env) ==
    IF jobs = <<>> \/ ~gemini THEN jobs
    ELSE LET valid == ValidJobs(jobs)
         IN IF valid = <<>> THEN jobs
            ELSE IF env.kind = "raise" THEN jobs
            ELSE SortByScore([i \in 1..Len(valid) |-> Scored(valid[i], env, HasQuery(q))])

\* The caller's list after compute_similarity_ranking(profile, jobs, query):
\* the dicts of valid_jobs have been given their score and reasoning in
\* place, the others are untouched.
InPlace(jobs, q, gemini, env) ==
    IF jobs = <<>> \/ ~gemini THEN jobs
    ELSE IF ValidJobs(jobs) = <<>> \/ env.kind = "raise" THEN jobs
    ELSE [i \in 1..Len(jobs) |->
            IF Embeddable(jobs[i])
               /\ Len(SelectSeq(SubSeq(jobs, 1, i), Embeddable)) <= EmbedCap
            THEN Scored(jobs[i], env, HasQuery(q))
            ELSE jobs[i]]

Annotate_AllFalse(jobs, applied) ==
    [i \in 1..Len(jobs) |-> Merged(jobs[i], [is_applied |-> FALSE])]

\* job["is_applied"] = job.get("id") in applied_job_ids
Annotate(jobs, applied) ==
    [i \in 1..Len(jobs) |-> Merged(jobs[i], [is_applied |-> jobs[i].id \in applied])]

----------------------------------------------------------------------------
(* The inputs of the orchestrator specification *)

\* The longest flat list of arbitrary pool variations the planner emits.
MaxVars == 1

Lyon == <<"L", "y", "o", "n">>
Paris == <<"P", "a", "r", "i", "s">>

VLyon == FranceTravailParams("python", Lyon, "commune", "2", "E", "CDI", "True")
VParis == FranceTravailParams("dev", Paris, "unknown", None, None, None, None)
VDept == FranceTravailParams("vente", <<"6", "9">>, "departement", None, "D", None, "False")
VNoLoc == FranceTravailParams("data", <<>>, "unknown", None, None, None, None)

VarPool == {VLyon, VParis, VDept, VNoLoc}

SeqsUpTo(S, n) == UNION {[1..k -> S] : k \in 0..n}

\* What the collaborator emits as result.variations: None, a bare
\* FranceTravailParams object, a string, every flat list
\* of up to MaxVars pool variations (the empty one included), three plans of
\* two variations, one of four, and two nested lists (one and two levels
\* deep).
PlannerValues ==
    {PyNone, VNoLoc, PyStr}
    \cup {PyList(vs) : vs \in SeqsUpTo(VarPool, MaxVars)}
    \cup {PyList(<<VLyon, VParis>>), PyList(<<VNoLoc, VLyon>>), PyList(<<VParis, VDept>>)}
    \cup {PyList(<<VNoLoc, VDept, VNoLoc, VNoLoc>>)}
    \cup {PyList(<<PyList(<<VLyon, VNoLoc>>)>>),
          PyList(<<PyList(<<PyList(<<VLyon>>)>>), VNoLoc>>)}

PlannerOutputs == {[kind |-> "raise"]} \cup {[kind |-> "value", value |-> v] : v \in PlannerValues}

Queries == {None, "remote python job in Lyon"}

GeoFail == [ok |-> FALSE, json |-> <<>>]
GeoOk(hits) == [ok |-> TRUE, json |-> hits]

RegionResps == {GeoFail, GeoOk(<<>>),
                GeoOk(<<[nom |-> "Auvergne-Rhone-Alpes", code |-> <<8, 4>>]>>)}
DeptResps == {GeoFail, GeoOk(<<>>), GeoOk(<<[nom |-> "Rhone", code |-> <<6, 9>>]>>)}

CityLyon == [nom |-> "Lyon", code |-> <<6, 9, 1, 2, 3>>,
             departement |-> [code |-> <<6, 9>>, nom |-> "Rhone"]]
CityVilleurbanne == [nom |-> "Villeurbanne", code |-> <<6, 9, 2, 6, 6>>,
                     departement |-> [code |-> <<6, 9>>, nom |-> "Rhone"]]
CityParis == [nom |-> "Paris", code |-> <<7, 5, 0, 5, 6>>,
              departement |-> [code |-> <<7, 5>>, nom |-> "Paris"]]
CityNoDept == [nom |-> "Lyons-la-Foret", code |-> <<2, 7, 3, 7, 7>>]

CityResps == {GeoFail, GeoOk(<<>>), GeoOk(<<CityLyon, CityVilleurbanne>>),
              GeoOk(<<CityParis>>), GeoOk(<<CityNoDept>>)}

JobLists == {<<Job1a, Job2, Job3>>, <<Job1b, JobNoId, Job1b>>, <<JobNoId>>}

TaskEnvs ==
    {[kind |-> "auth"], [kind |-> "net"],
     [kind |-> "http", status |-> 204, data |-> <<>>],
     [kind |-> "http", status |-> 500, data |-> <<>>],
     [kind |-> "http", status |-> 200, data |-> <<>>]}
    \cup {[kind |-> "http", status |-> 200, data |-> [resultats |-> l]] : l \in JobLists}

RankEnvs ==
    {[kind |-> "raise"],
     [kind |-> "ok", p |-> <<3, 4>>, q |-> <<0, -1>>, docs |-> Docs]}

AppliedSets == {{}, {1}}

----------------------------------------------------------------------------
(* SmartJobService.smart_search as a process *)

\* Steps 1-2: the profile summary, the planner call and the flattening.
\* predict_params catches every exception itself, so the except branch of
\* smart_search around it is never taken.
Plan(out) ==
    /\ pc = "plan"
    /\ LET raw == PredictParams(UserQuery(query), out)
           vs == Flatten(raw)
       IN /\ planner_out' = out
          /\ raw_variations' = raw
          /\ variations' = vs
          /\ pc' = IF vs = <<>> THEN "gather" ELSE "resolve"
    /\ vi' = 1
    /\ UNCHANGED <<has_gemini, query, resolved, tasks, results_list, all_jobs,
                   fallbacks, fallback_res, returned, reranked_jobs, applied_job_ids>>
    /\ UNCHANGED <<clientVars, rankVars, resolveVars, batchVars>>

\* One turn of the task loop: resolve the variation's location, add its tasks.
Resolve(rr, dr, cr) ==
    /\ pc = "resolve"
    /\ LET v == variations[vi]
           loc_raw == GetAttr(v, "location_raw", <<>>)
           loc_type == GetAttr(v, "location_type", "unknown")
           loc == IF loc_raw # <<>>
                  THEN ResolveLocation(loc_raw, loc_type, rr, dr, cr)
                  ELSE Unresolved
           ts == tasks \o VariationTasks(vi, v, loc)
       IN /\ tasks' = ts
          /\ resolved' = Append(resolved, loc)
          /\ IF vi = Len(variations)
             THEN /\ pc' = "gather"
                  /\ results_list' = [i \in 1..Len(ts) |-> Pending]
             ELSE /\ pc' = "resolve"
                  /\ results_list' = results_list
    /\ vi' = vi + 1
    /\ UNCHANGED <<has_gemini, query, variations, all_jobs, fallbacks, fallback_res,
                   returned>>
    /\ UNCHANGED <<planner_out, raw_variations, reranked_jobs, applied_job_ids>>
    /\ UNCHANGED <<clientVars, rankVars, resolveVars, batchVars>>

\* One of the gathered search_jobs calls finishes, in any order.
TaskDone(i, env) ==
    /\ pc = "gather"
    /\ i \in 1..Len(results_list)
    /\ results_list[i] = Pending
    /\ results_list' = [results_list EXCEPT ![i] = ClientOutcome(env)]
    /\ UNCHANGED <<has_gemini, pc, query, variations, vi, resolved, tasks, all_jobs,
                   fallbacks, fallback_res, returned>>
    /\ UNCHANGED <<planner_out, raw_variations, reranked_jobs, applied_job_ids>>
    /\ UNCHANGED <<clientVars, rankVars, resolveVars, batchVars>>

\* gather returns: merge and deduplicate, then either start the national
\* fallback search or go on to the ranking.
GatherReturns ==
    /\ pc = "gather"
    /\ GatherOutcome(results_list) # "waiting"
    /\ IF GatherOutcome(results_list) = "raise"
       THEN /\ pc' = "raised"
            /\ UNCHANGED <<all_jobs, fallbacks>>
       ELSE LET merged == MergeResults(results_list, <<>>, {})
            IN /\ all_jobs' = merged
               /\ IF NeedsFallback(merged)
                  THEN /\ pc' = "fallback"
                       /\ fallbacks' = Append(fallbacks,
                                              FallbackArgs(variations, UserQuery(query)))
                  ELSE /\ pc' = "rank"
                       /\ fallbacks' = fallbacks
    /\ UNCHANGED <<has_gemini, query, variations, vi, resolved, tasks, results_list,
                   fallback_res, returned>>
    /\ UNCHANGED <<planner_out, raw_variations, reranked_jobs, applied_job_ids>>
    /\ UNCHANGED <<clientVars, rankVars, resolveVars, batchVars>>

\* The national fallback search finishes.
FallbackDone(env) ==
    /\ pc = "fallback"
    /\ LET o == ClientOutcome(env)
       IN /\ fallback_res' = o
          /\ IF o.state = "exc"
             THEN /\ pc' = FallbackFailure
                  /\ returned' = <<>>
                  /\ all_jobs' = all_jobs
             ELSE /\ pc' = "rank"
                  /\ returned' = returned
                  /\ all_jobs' = o.jobs
    /\ UNCHANGED <<has_gemini, query, variations, vi, resolved, tasks, results_list,
                   fallbacks>>
    /\ UNCHANGED <<planner_out, raw_variations, reranked_jobs, applied_job_ids>>
    /\ UNCHANGED <<clientVars, rankVars, resolveVars, batchVars>>

\* Rerank, mark the applied jobs, return.
RankAndReturn(env, applied) ==
    /\ pc = "rank"
    /\ reranked_jobs' = Rank(all_jobs, query, has_gemini, env)
    /\ applied_job_ids' = applied
    /\ returned' = Annotate(Rank(all_jobs, query, has_gemini, env), applied)
    /\ pc' = "done"
    /\ UNCHANGED <<has_gemini, query, variations, vi, resolved, tasks, results_list,
                   all_jobs, fallbacks, fallback_res>>
    /\ UNCHANGED <<planner_out, raw_variations>>
    /\ UNCHANGED <<clientVars, rankVars, resolveVars, batchVars>>

Init ==
    /\ access_token = 0
    /\ token_expiry = 0
    /\ token_valid_until = 0
    /\ now = 0
    /\ exchanges = 0
    /\ ncalls = 0
    /\ call = IdleCall
    /\ sent = <<>>
    /\ has_gemini \in BOOLEAN
    /\ pc = "plan"
    /\ query \in Queries
    /\ variations = <<>>
    /\ vi = 0
    /\ resolved = <<>>
    /\ tasks = <<>>
    /\ results_list = <<>>
    /\ all_jobs = <<>>
    /\ fallbacks = <<>>
    /\ fallback_res = [state |-> "none", jobs |-> <<>>]
    /\ returned = <<>>
    /\ planner_out = [kind |-> "none"]
    /\ reranked_jobs = <<>>
    /\ applied_job_ids = {}
    /\ raw_variations = PyNone
    /\ rk_pc = "off"
    /\ rk_jobs = <<>>
    /\ rk_list = <<>>
    /\ rk_query = None
    /\ rk_env = [kind |-> "raise"]
    /\ rk_out = <<>>
    /\ rk_same = <<>>
    /\ rk_again = <<>>
    /\ rs_pc = "off"
    /\ rs_raw = <<>>
    /\ rs_hint = "unknown"
    /\ rs_geo = <<>>
    /\ rs_out = <<>>
    /\ bcalls = <<>>
    /\ bsent = <<>>
    /\ responses = <<>>

Next ==
    \/ \E out \in PlannerOutputs : Plan(out)
    \/ \E rr \in RegionResps, dr \in DeptResps, cr \in CityResps : Resolve(rr, dr, cr)
    \/ \E i \in 1..Len(results_list), env \in TaskEnvs : TaskDone(i, env)
    \/ GatherReturns
    \/ \E env \in TaskEnvs : FallbackDone(env)
    \/ \E env \in RankEnvs, applied \in AppliedSets : RankAndReturn(env, applied)

Spec == Init /\ [][Next]_vars

----------------------------------------------------------------------------
(* RankingService.compute_similarity_ranking on its own: a list of jobs    *)
(* is ranked, the same list is ranked again, then the list the first call  *)
(* returned is ranked.                                                     *)

\* The longest list of arbitrary postings ranked.
MaxJobs == 3

JobUntitled == [id |-> 4, intitule |-> "",
                description |-> [len |-> 10, topic |-> "sales"]]

RankKinds == {Job1a, Job2, Job3, JobUntitled}

\* The posting with its position in the list as id.
AtPos(job, i) == [job EXCEPT !.id = i]

\* A list two longer than the embedding batch, its second posting without
\* title or usable description: 101 postings are eligible.
LongList ==
    [i \in 1..(EmbedCap + 2) |->
        AtPos(IF i = 2 THEN Job3 ELSE IF i % 2 = 1 THEN Job2 ELSE Job1a, i)]

RankInputs ==
    {[i \in DOMAIN f |-> AtPos(f[i], i)] : f \in SeqsUpTo(RankKinds, MaxJobs)}
    \cup {LongList}

\* What the embedding collaborator does: it fails, or returns the vector of
\* the profile, of the query and of each job text.
EmbedEnvs ==
    {[kind |-> "raise"]}
    \cup {[kind |-> "ok", p |-> pq[1], q |-> pq[2], docs |-> Docs] : pq \in EmbedPairs}

RankCall ==
    /\ rk_pc = "call"
    /\ rk_out' = Rank(rk_list, rk_query, has_gemini, rk_env)
    /\ rk_list' = InPlace(rk_list, rk_query, has_gemini, rk_env)
    /\ rk_pc' = "ranked"
    /\ UNCHANGED <<rk_jobs, rk_query, rk_env, rk_same, rk_again>>
    /\ UNCHANGED <<clientVars, orchVars, resolveVars, batchVars>>

RankSame ==
    /\ rk_pc = "ranked"
    /\ rk_same' = Rank(rk_list, rk_query, has_gemini, rk_env)
    /\ rk_list' = InPlace(rk_list, rk_query, has_gemini, rk_env)
    /\ rk_pc' = "same"
    /\ UNCHANGED <<rk_jobs, rk_query, rk_env, rk_out, rk_again>>
    /\ UNCHANGED <<clientVars, orchVars, resolveVars, batchVars>>

RankAgain ==
    /\ rk_pc = "same"
    /\ rk_again' = Rank(rk_out, rk_query, has_gemini, rk_env)
    /\ rk_pc' = "again"
    /\ UNCHANGED <<rk_jobs, rk_list, rk_query, rk_env, rk_out, rk_same>>
    /\ UNCHANGED <<clientVars, orchVars, resolveVars, batchVars>>

InitRank ==
    /\ access_token = 0
    /\ token_expiry = 0
    /\ token_valid_until = 0
    /\ now = 0
    /\ exchanges = 0
    /\ ncalls = 0
    /\ call = IdleCall
    /\ sent = <<>>
    /\ has_gemini \in BOOLEAN
    /\ pc = "off"
    /\ query = None
    /\ variations = <<>>
    /\ vi = 0
    /\ resolved = <<>>
    /\ tasks = <<>>
    /\ results_list = <<>>
    /\ all_jobs = <<>>
    /\ fallbacks = <<>>
    /\ fallback_res = [state |-> "none", jobs |-> <<>>]
    /\ returned = <<>>
    /\ planner_out = [kind |-> "none"]
    /\ reranked_jobs = <<>>
    /\ applied_job_ids = {}
    /\ raw_variations = PyNone
    /\ rk_pc = "call"
    /\ rk_jobs \in RankInputs
    /\ rk_list = rk_jobs
    /\ rk_query \in Queries
    /\ rk_env \in EmbedEnvs
    /\ rk_out = <<>>
    /\ rk_same = <<>>
    /\ rk_again = <<>>
    /\ rs_pc = "off"
    /\ rs_raw = <<>>
    /\ rs_hint = "unknown"
    /\ rs_geo = <<>>
    /\ rs_out = <<>>
    /\ bcalls = <<>>
    /\ bsent = <<>>
    /\ responses = <<>>

NextRank ==
    \/ RankCall
    \/ RankSame
    \/ RankAgain

SpecRank == InitRank /\ [][NextRank]_vars

----------------------------------------------------------------------------
(* SmartJobService._resolve_location on its own *)

RawLocations == {Lyon, Paris, <<"6", "9">>, <<"L">>}

Hints == {"region", "departement", "commune", "unknown"}

\* The geo source's answers, those with two hits included.
GeoAnswers ==
    [regions : RegionResps \cup
                 {GeoOk(<<[nom |-> "Auvergne-Rhone-Alpes", code |-> <<8, 4>>],
                          [nom |-> "Bourgogne-Franche-Comte", code |-> <<2, 7>>]>>)},
     depts : DeptResps \cup
               {GeoOk(<<[nom |-> "Paris", code |-> <<7, 5>>],
                        [nom |-> "Rhone", code |-> <<6, 9>>]>>)},
     cities : CityResps]

ResolveCall ==
    /\ rs_pc = "call"
    /\ rs_out' = ResolveLocation(rs_raw, rs_hint, rs_geo.regions, rs_geo.depts,
                                 rs_geo.cities)
    /\ rs_pc' = "done"
    /\ UNCHANGED <<rs_raw, rs_hint, rs_geo>>
    /\ UNCHANGED <<clientVars, orchVars, rankVars, batchVars>>

InitResolve ==
    /\ access_token = 0
    /\ token_expiry = 0
    /\ token_valid_until = 0
    /\ now = 0
    /\ exchanges = 0
    /\ ncalls = 0
    /\ call = IdleCall
    /\ sent = <<>>
    /\ has_gemini = TRUE
    /\ pc = "off"
    /\ query = None
    /\ variations = <<>>
    /\ vi = 0
    /\ resolved = <<>>
    /\ tasks = <<>>
    /\ results_list = <<>>
    /\ all_jobs = <<>>
    /\ fallbacks = <<>>
    /\ fallback_res = [state |-> "none", jobs |-> <<>>]
    /\ returned = <<>>
    /\ planner_out = [kind |-> "none"]
    /\ reranked_jobs = <<>>
    /\ applied_job_ids = {}
    /\ raw_variations = PyNone
    /\ rk_pc = "off"
    /\ rk_jobs = <<>>
    /\ rk_list = <<>>
    /\ rk_query = None
    /\ rk_env = [kind |-> "raise"]
    /\ rk_out = <<>>
    /\ rk_same = <<>>
    /\ rk_again = <<>>
    /\ rs_pc = "call"
    /\ rs_raw \in RawLocations
    /\ rs_hint \in Hints
    /\ rs_geo \in GeoAnswers
    /\ rs_out = <<>>
    /\ bcalls = <<>>
    /\ bsent = <<>>
    /\ responses = <<>>

NextResolve == ResolveCall

SpecResolve == InitResolve /\ [][NextResolve]_vars

----------------------------------------------------------------------------
(* A batch of search_jobs calls gathered by smart_search, running          *)
(* concurrently on the one FranceTravailService: a call yields at the      *)
(* await of the token exchange, at the exit of the exchange's HTTP client  *)
(* and at the await of the search request, and runs without interruption   *)
(* in between.                                                             *)

\* The number of calls in the batch.
MaxBatch == 2

\* self.token_expiry = time.time() + data["expires_in"] - 60
CachedExpiry(expires_in) == now + expires_in - TokenMargin

\* Call c starts: the cache check, then the search request with the cached
\* token or the token exchange.
BatchStart(c) ==
    /\ bcalls[c].pc = "new"
    /\ IF TokenCached
       THEN /\ bcalls' = [bcalls EXCEPT ![c] = [pc |-> "get", token |-> access_token]]
            /\ bsent' = Append(bsent, [call |-> c, token |-> access_token])
       ELSE /\ bcalls' = [bcalls EXCEPT ![c] = [pc |-> "post", token |-> 0]]
            /\ bsent' = bsent
    /\ UNCHANGED <<access_token, token_expiry, token_valid_until, now, exchanges, ncalls,
                   call, sent, responses>>
    /\ UNCHANGED <<orchVars, rankVars, resolveVars>>

\* The token endpoint answers call c with a token and a numeric expires_in:
\* both cache fields are written, and the call yields while the exchange's
\* HTTP client is closed.
BatchExchangeOk(c, expires_in) ==
    /\ bcalls[c].pc = "post"
    /\ exchanges' = exchanges + 1
    /\ access_token' = exchanges + 1
    /\ token_expiry' = CachedExpiry(expires_in)
    /\ token_valid_until' = now + expires_in
    /\ responses' = Append(responses, [token |-> exchanges + 1,
                                        complete |-> TRUE,
                                        expires_in |-> expires_in,
                                        received_at |-> now])
    /\ bcalls' = [bcalls EXCEPT ![c] = [pc |-> "token", token |-> exchanges + 1]]
    /\ UNCHANGED <<now, ncalls, call, sent, bsent>>
    /\ UNCHANGED <<orchVars, rankVars, resolveVars>>

\* Call c resumes with the token it received and hands its search request
\* to the HTTP client.
BatchSearchSend(c) ==
    /\ bcalls[c].pc = "token"
    /\ bcalls' = [bcalls EXCEPT ![c].pc = "get"]
    /\ bsent' = Append(bsent, [call |-> c, token |-> bcalls[c].token])
    /\ UNCHANGED <<access_token, token_expiry, token_valid_until, now, exchanges, ncalls,
                   call, sent, responses>>
    /\ UNCHANGED <<orchVars, rankVars, resolveVars>>

\* The token exchange of call c fails: the call raises, after caching the
\* token when the answer carried one without a usable expires_in.
BatchExchangeFail(c, ans) ==
    /\ bcalls[c].pc = "post"
    /\ bcalls' = [bcalls EXCEPT ![c].pc = "failed"]
    /\ IF TokenWritten(ans)
       THEN /\ exchanges' = exchanges + 1
            /\ access_token' = exchanges + 1
            /\ token_valid_until' = now + ans.lifetime
            /\ responses' = Append(responses, [token |-> exchanges + 1,
                                                complete |-> FALSE,
                                                expires_in |-> 0,
                                                received_at |-> now])
       ELSE UNCHANGED <<access_token, token_valid_until, exchanges, responses>>
    /\ UNCHANGED <<token_expiry, now, ncalls, call, sent, bsent>>
    /\ UNCHANGED <<orchVars, rankVars, resolveVars>>

\* The search request of call c is answered: the call is over.
BatchSearchDone(c) ==
    /\ bcalls[c].pc = "get"
    /\ bcalls' = [bcalls EXCEPT ![c].pc = "done"]
    /\ UNCHANGED <<access_token, token_expiry, token_valid_until, now, exchanges, ncalls,
                   call, sent, bsent, responses>>
    /\ UNCHANGED <<orchVars, rankVars, resolveVars>>

InitBatch ==
    /\ access_token = 0
    /\ token_expiry = 0
    /\ token_valid_until = 0
    /\ now = 0
    /\ exchanges = 0
    /\ ncalls = 0
    /\ call = IdleCall
    /\ sent = <<>>
    /\ has_gemini = TRUE
    /\ pc = "off"
    /\ query = None
    /\ variations = <<>>
    /\ vi = 0
    /\ resolved = <<>>
    /\ tasks = <<>>
    /\ results_list = <<>>
    /\ all_jobs = <<>>
    /\ fallbacks = <<>>
    /\ fallback_res = [state |-> "none", jobs |-> <<>>]
    /\ returned = <<>>
    /\ planner_out = [kind |-> "none"]
    /\ reranked_jobs = <<>>
    /\ applied_job_ids = {}
    /\ raw_variations = PyNone
    /\ rk_pc = "off"
    /\ rk_jobs = <<>>
    /\ rk_list = <<>>
    /\ rk_query = None
    /\ rk_env = [kind |-> "raise"]
    /\ rk_out = <<>>
    /\ rk_same = <<>>
    /\ rk_again = <<>>
    /\ rs_pc = "off"
    /\ rs_raw = <<>>
    /\ rs_hint = "unknown"
    /\ rs_geo = <<>>
    /\ rs_out = <<>>
    /\ bcalls = [c \in 1..MaxBatch |-> [pc |-> "new", token |-> 0]]
    /\ bsent = <<>>
    /\ responses = <<>>

NextBatch ==
    \/ \E c \in 1..MaxBatch : BatchStart(c)
    \/ \E c \in 1..MaxBatch, e \in ExpiresIns : BatchExchangeOk(c, e)
    \/ \E c \in 1..MaxBatch : BatchSearchSend(c)
    \/ \E c \in 1..MaxBatch, ans \in FailedAnswers : BatchExchangeFail(c, ans)
    \/ \E c \in 1..MaxBatch : BatchSearchDone(c)
    \/ \E d \in TickSteps : Tick(d)

SpecBatch == InitBatch /\ [][NextBatch]_vars

----------------------------------------------------------------------------
(* Properties of the job board client, checked under SpecClient *)

\* The location argument of the call in progress.
CallLocation == ArgCode(call.args, "location")

Has(p, k) == k \in DOMAIN p

\* C6: a search whose location is the commune code 75056 sends the job
\* board departement = "75" and neither a commune nor a distance parameter.
C6_ParisSentAsDepartment ==
    \A i \in 1..Len(sent) :
        CallLocation = <<7, 5, 0, 5, 6>> =>
            /\ Has(sent[i].params, "departement")
            /\ sent[i].params["departement"] = <<7, 5>>
            /\ ~Has(sent[i].params, "commune")
            /\ ~Has(sent[i].params, "distance")

C6_Witness ==
    /\ call.pc = "returned"
    /\ Len(sent) = 1
    /\ CallLocation = <<7, 5, 0, 5, 6>>
    /\ ArgCode(call.args, "departement") = <<6, 9>>

\* C7 as stated: every commune code that starts with "75" is rewritten to
\* the department-level constraint "75", never sent as commune + radius.
C7_EveryPrefix75Rewritten ==
    \A i \in 1..Len(sent) :
        (Len(CallLocation) >= 2 /\ CallLocation[1] = 7 /\ CallLocation[2] = 5) =>
            /\ Has(sent[i].params, "departement")
            /\ sent[i].params["departement"] = <<7, 5>>
            /\ ~Has(sent[i].params, "commune")
            /\ ~Has(sent[i].params, "distance")

\* C7 amended: a location is rewritten to departement = "75" exactly when it
\* is "75056" or "75"; any other code that starts with "75" (75101) is sent
\* as commune = code with a distance.
C7_OnlyLiteralParisRewritten ==
    \A i \in 1..Len(sent) :
        CallLocation # <<>> =>
            /\ ~Has(sent[i].params, "commune")
                  <=> CallLocation \in {<<7, 5, 0, 5, 6>>, <<7, 5>>}
            /\ ~Has(sent[i].params, "commune") =>
                  /\ Has(sent[i].params, "departement")
                  /\ sent[i].params["departement"] = <<7, 5>>
            /\ Has(sent[i].params, "commune") =>
                  /\ sent[i].params["commune"] = CallLocation
                  /\ Has(sent[i].params, "distance")

C7_Witness ==
    /\ Len(sent) = 1
    /\ CallLocation = <<7, 5, 1, 0, 1>>
    /\ Has(sent[1].params, "commune")
    /\ sent[1].params["commune"] = <<7, 5, 1, 0, 1>>
    /\ sent[1].params["distance"] = 25

\* C8 as stated: a 2-digit numeric location other than "75" is sent as a
\* department code, not as a commune code with a distance.
C8_TwoDigitSentAsDepartment ==
    \A i \in 1..Len(sent) :
        (Len(CallLocation) = 2 /\ CallLocation # <<7, 5>>) =>
            /\ Has(sent[i].params, "departement")
            /\ sent[i].params["departement"] = CallLocation
            /\ ~Has(sent[i].params, "commune")
            /\ ~Has(sent[i].params, "distance")

\* C8 amended: a 2-digit numeric location other than "75" is sent like any
\* other commune code, as commune = code with a distance; the request
\* carries a departement parameter only when the call's departement
\* argument is given, and then with that argument's value.
C8_TwoDigitSentAsCommune ==
    \A i \in 1..Len(sent) :
        (Len(CallLocation) = 2 /\ CallLocation # <<7, 5>>) =>
            /\ Has(sent[i].params, "commune")
            /\ sent[i].params["commune"] = CallLocation
            /\ Has(sent[i].params, "distance")
            /\ Has(sent[i].params, "departement") <=> Has(call.args, "departement")
            /\ Has(sent[i].params, "departement") =>
                  sent[i].params["departement"] = call.args["departement"]

C8_Witness ==
    /\ Len(sent) = 1
    /\ CallLocation = <<6, 9>>
    /\ ~Has(call.args, "departement")
    /\ sent[1].params["commune"] = <<6, 9>>
    /\ ~Has(sent[1].params, "departement")

\* C9: a commune code other than the Paris special case is sent as
\* commune = code with distance = 25 unless the caller gives a distance;
\* a request carries a distance if and only if it carries a commune.
C9_CommuneWithDistance ==
    \A i \in 1..Len(sent) :
        /\ (CallLocation # <<>> /\ CallLocation \notin {<<7, 5, 0, 5, 6>>, <<7, 5>>}) =>
              /\ Has(sent[i].params, "commune")
              /\ sent[i].params["commune"] = CallLocation
              /\ Has(sent[i].params, "distance")
              /\ sent[i].params["distance"] =
                    IF Has(call.args, "distance") THEN call.args["distance"] ELSE 25
        /\ Has(sent[i].params, "distance") <=> Has(sent[i].params, "commune")

C9_Witness ==
    /\ Len(sent) = 1
    /\ CallLocation = <<6, 9, 1, 2, 3>>
    /\ Has(call.args, "distance")
    /\ call.args["distance"] = 10
    /\ sent[1].params["distance"] = 10
    /\ sent[1].params["commune"] = <<6, 9, 1, 2, 3>>

\* C10: a 204 response makes the call return an empty list, any status
\* outside 2xx makes it raise, and in both cases the call has issued
\* exactly one search request.
C10_NoContentAndErrors ==
    call.status # 0 =>
        /\ call.pc \in {"returned", "raised"}
        /\ call.status = 204 => (call.pc = "returned" /\ call.result = <<>>)
        /\ call.status \notin 200..299 => call.pc = "raised"
        /\ call.status \in (200..299) \ {204} => call.pc = "returned"
        /\ call.status = 204 \/ call.status \notin 200..299 => Len(sent) = 1

C10_Witness ==
    /\ call.status = 204
    /\ call.pc = "returned"
    /\ call.result = <<>>
    /\ Len(sent) = 1


\* C11: a search call starts a token exchange exactly when no token is
\* cached or the cached token has 60 seconds or less of real validity left
\* (or is past it); otherwise it sends the search request at once with the
\* cached token, which then has more than 60 seconds of validity left.
C11_ExchangeIffStale ==
    [][ncalls' = ncalls + 1 =>
          LET stale == access_token = 0 \/ token_valid_until - now <= 60
          IN /\ (call'.pc = "post") <=> stale
             /\ stale => sent' = <<>> /\ exchanges' = exchanges
             /\ ~stale => /\ call'.pc = "get"
                          /\ Len(sent') = 1
                          /\ sent'[1].token = access_token
                          /\ access_token' = access_token
             /\ sent' # <<>> => token_valid_until - now >= 60]_vars

\* C29: when the token exchange of a call fails, the call raises without
\* having sent a search request and the cached token and expiry are what
\* they were; the next call then starts with a token exchange again.
C29_FailedExchangeLeavesCache ==
    [][/\ (call.pc = "post" /\ call'.pc = "raised") =>
             /\ sent' = <<>>
             /\ access_token' = access_token
             /\ token_expiry' = token_expiry
       /\ (call.pc = "raised" /\ sent = <<>> /\ ncalls' = ncalls + 1) =>
             /\ call'.pc = "post"
             /\ sent' = <<>>]_vars

----------------------------------------------------------------------------
(* Properties of smart_search, checked under Spec *)

\* gather has returned.
Gathered == pc \in {"fallback", "rank", "done"}

\* The postings the finished, successful tasks returned.
OkPostings ==
    UNION {{results_list[i].jobs[k] : k \in 1..Len(results_list[i].jobs)} :
              i \in {n \in 1..Len(results_list) : results_list[n].state = "ok"}}

\* C1: the list a smart-search call returns never holds two postings with
\* the same id, whichever searches the postings come from.
C1_ReturnedIdsDistinct ==
    pc = "done" =>
        \A i, j \in 1..Len(returned) :
            (i < j /\ returned[i].id # 0) => returned[i].id # returned[j].id

\* C2: the national fallback search is issued if and only if no posting was
\* merged once every task has finished, never before, at most once, with the
\* keywords of the first variation (the user query when there is none) and
\* no location; when it yields nothing the call returns the empty list.
C2_NationalFallback ==
    /\ Len(fallbacks) <= 1
    /\ ~Gathered => fallbacks = <<>>
    /\ Gathered =>
          /\ \A i \in 1..Len(results_list) : results_list[i].state # "pending"
          /\ fallbacks # <<>> <=> \A job \in OkPostings : job.id = 0
    /\ fallbacks # <<>> =>
          /\ DOMAIN fallbacks[1] = {"keywords"}
          /\ DOMAIN BuildParams(fallbacks[1]) = {"motsCles", "range"}
          /\ fallbacks[1]["keywords"] =
                IF variations # <<>> /\ variations[1].t = "params"
                THEN variations[1].keywords
                ELSE IF query = "None" THEN "Find jobs matching my profile" ELSE query
    /\ (pc = "done" /\ fallbacks # <<>> /\ fallback_res.jobs = <<>>) => returned = <<>>

C2_Witness ==
    /\ pc = "done"
    /\ Len(fallbacks) = 1
    /\ Len(variations) = 2
    /\ variations[1].t = "params"
    /\ variations[2].t = "params"
    /\ variations[1].keywords # variations[2].keywords
    /\ fallbacks[1]["keywords"] = variations[1].keywords
    /\ fallback_res.state = "ok"
    /\ returned = <<>>

\* C3: whatever subset of the tasks fails, gather returns only when every
\* task has finished, every posting with an id that a successful task
\* returned is in the merged list, the merged list holds nothing else, and
\* the call does not fail.
C3_FailuresIsolated ==
    /\ pc # "raised"
    /\ Gathered =>
          /\ \A i \in 1..Len(results_list) : results_list[i].state \in {"ok", "exc"}
          /\ \A job \in OkPostings :
                job.id # 0 =>
                    /\ fallbacks = <<>>
                    /\ \E m \in 1..Len(all_jobs) : all_jobs[m].id = job.id
          /\ fallbacks = <<>> =>
                \A m \in 1..Len(all_jobs) : all_jobs[m] \in OkPostings

C3_Witness ==
    /\ pc = "rank"
    /\ Len(results_list) = 4
    /\ results_list[1].state = "exc"
    /\ results_list[2].state = "ok"
    /\ results_list[3].state = "exc"
    /\ results_list[4].state = "ok"
    /\ results_list[2].jobs # <<>>
    /\ results_list[4].jobs # <<>>
    /\ Len(all_jobs) = 3

\* The tasks of variation k with the given role.
TasksOf(k, role) == {i \in 1..Len(tasks) : tasks[i].var = k /\ tasks[i].role = role}

SameFilters(a, b) ==
    \A f \in {"keywords", "experience", "experience_exigence", "contract_type",
              "is_full_time"} : a[f] = b[f]

\* C4: a variation resolved to a commune whose top hit carries a parent
\* department, and whose primary request is not department-scoped, gets
\* exactly one secondary search, on that department, with the keywords and
\* filters of the primary, whatever the primary search comes to; a variation
\* resolved to a region, a department or nothing gets none.
C4_SecondarySearch ==
    pc \notin {"plan", "resolve"} =>
        \A k \in 1..Len(variations) :
            /\ Cardinality(TasksOf(k, "primary")) = 1
            /\ LET prim == tasks[CHOOSE i \in TasksOf(k, "primary") : TRUE]
                   secs == TasksOf(k, "secondary")
               IN /\ ("location" \in DOMAIN resolved[k].params
                        /\ "dept" \in DOMAIN resolved[k].meta
                        /\ "departement" \notin DOMAIN BuildParams(prim.args)) =>
                         /\ Cardinality(secs) = 1
                         /\ \A i \in secs :
                               /\ tasks[i].args["departement"] = resolved[k].meta["dept"]
                               /\ "location" \notin DOMAIN tasks[i].args
                               /\ "region" \notin DOMAIN tasks[i].args
                               /\ SameFilters(tasks[i].args, prim.args)
                               /\ BuildParams(tasks[i].args)["departement"]
                                     = resolved[k].meta["dept"]
                               /\ "commune" \notin DOMAIN BuildParams(tasks[i].args)
                  /\ "location" \notin DOMAIN resolved[k].params => secs = {}

C4_Witness ==
    /\ pc = "rank"
    /\ Len(tasks) = 3
    /\ tasks[1].role = "primary"
    /\ tasks[1].args["keywords"] = "python"
    /\ "location" \in DOMAIN tasks[1].args
    /\ tasks[1].args["location"] = <<6, 9, 1, 2, 3>>
    /\ tasks[2].role = "secondary"
    /\ tasks[2].args["departement"] = <<6, 9>>
    /\ tasks[2].args["contract_type"] = "CDI"
    /\ results_list[1].state = "exc"
    /\ results_list[2].state = "ok"
    /\ "region" \in DOMAIN resolved[2].params

\* C5: a smart-search call never raises, whatever fails among the planner,
\* the geo lookups, the token exchange, the job board and the embeddings;
\* it returns a list, empty when the national fallback fails or finds
\* nothing.
C5_NeverRaises ==
    /\ pc \in {"plan", "resolve", "gather", "fallback", "rank", "done"}
    /\ pc = "done" =>
          /\ DOMAIN returned = 1..Len(returned)
          /\ fallback_res.state = "exc" => returned = <<>>
          /\ (fallback_res.state = "ok" /\ fallback_res.jobs = <<>>) => returned = <<>>

C5_Witness ==
    /\ pc = "done"
    /\ returned = <<>>
    /\ fallback_res.state = "exc"
    /\ Len(variations) = 2
    /\ variations[1].t = "params"
    /\ variations[1].location_raw # <<>>
    /\ resolved[1].params = <<>>
    /\ results_list[1].state = "exc"
    /\ results_list[2].state = "ok"

\* C12: a variation whose location_raw is given but resolves to nothing (no
\* hit, or the geo source fails) gets exactly one task, the primary search,
\* carrying the variation's keywords and filters and no region, department,
\* commune or distance; the call does not fail for it.
C12_UnresolvedLocation ==
    /\ pc # "raised"
    /\ \A k \in 1..Len(resolved) :
          (GetAttr(variations[k], "location_raw", <<>>) # <<>>
             /\ resolved[k].params = <<>>) =>
              /\ resolved[k].meta = <<>>
              /\ TasksOf(k, "secondary") = {}
              /\ Cardinality(TasksOf(k, "primary")) = 1
              /\ \A i \in TasksOf(k, "primary") :
                    /\ DOMAIN tasks[i].args \cap
                          {"location", "region", "departement", "distance"} = {}
                    /\ tasks[i].args["keywords"] = GetAttr(variations[k], "keywords", "")
                    /\ DOMAIN BuildParams(tasks[i].args) \cap
                          {"commune", "region", "departement", "distance"} = {}

\* The three geo lookups of "Paris" (no hint) found nothing, the one
\* primary search of that variation was issued and has returned postings.
C12_Witness ==
    /\ pc = "rank"
    /\ Len(variations) = 1
    /\ variations[1].t = "params"
    /\ variations[1].location_raw = Paris
    /\ resolved[1].lookups = <<"region", "departement", "commune">>
    /\ resolved[1].params = <<>>
    /\ Len(tasks) = 1
    /\ results_list[1].state = "ok"
    /\ all_jobs # <<>>

\* The collaborator raised, or gave variations that are not a list of
\* search parameter objects: None, a bare object, a string, a list holding
\* a list.
PlannerFailed ==
    \/ planner_out.kind = "raise"
    \/ /\ planner_out.kind = "value"
       /\ \/ planner_out.value.t # "list"
          \/ \E i \in 1..Len(planner_out.value.items) :
                planner_out.value.items[i].t # "params"

\* C13: when the reasoning collaborator raises or returns malformed output,
\* the planner returns exactly one variation (keywords = the user query, no
\* location, type unknown, every filter null), the failure is not
\* propagated, and the search goes on with that one variation: one primary
\* task with those keywords and no location.
C13_PlannerFallback ==
    (pc # "plan" /\ PlannerFailed) =>
        LET uq == IF query = "None" THEN "Find jobs matching my profile" ELSE query
            one == [t |-> "params", keywords |-> uq, location_raw |-> <<>>,
                    location_type |-> "unknown", experience_level |-> "None",
                    experience_exigence |-> "None", contract_type |-> "None",
                    is_full_time |-> "None"]
        IN /\ pc # "raised"
           /\ raw_variations = [t |-> "list", items |-> <<one>>]
           /\ variations = <<one>>
           /\ pc # "resolve" =>
                 /\ Len(tasks) = 1
                 /\ tasks[1].role = "primary"
                 /\ tasks[1].args["keywords"] = uq
                 /\ DOMAIN BuildParams(tasks[1].args) = {"motsCles", "range"}

\* C14: the planner returns at least one and at most three variations,
\* whatever number of variations the reasoning collaborator emits.
C14_OneToThreeVariations ==
    pc # "plan" =>
        /\ raw_variations.t = "list"
        /\ Len(raw_variations.items) >= 1
        /\ Len(raw_variations.items) <= 3

----------------------------------------------------------------------------
(* Properties of the ranker, checked under SpecRank *)

\* A posting has text to embed: a title, or 10 characters of description.
Eligible(job) == job.intitule # "" \/ job.description.len >= 10

\* The positions of the list whose postings went into the embedding batch.
Batch == {i \in 1..Len(rk_jobs) :
            /\ Eligible(rk_jobs[i])
            /\ Cardinality({j \in 1..i : Eligible(rk_jobs[j])}) <= 100}

\* The first call embedded a batch and scored it.
RankSucceeded ==
    /\ rk_pc # "call"
    /\ has_gemini
    /\ rk_env.kind = "ok"
    /\ Batch # {}

IsScored(job) == "relevance_score" \in DOMAIN job

\* C15: when the list is empty, the embedding collaborator is not
\* configured, or the embedding call raises, the call returns the list it
\* was given, same postings in the same order, and no posting has been
\* given a relevance_score or a relevance_reasoning.
C15_UnrankedOnFailure ==
    (rk_pc # "call" /\ (rk_jobs = <<>> \/ ~has_gemini \/ rk_env.kind = "raise")) =>
        /\ rk_out = rk_jobs
        /\ rk_list = rk_jobs
        /\ \A i \in 1..Len(rk_out) :
              DOMAIN rk_out[i] \cap {"relevance_score", "relevance_reasoning"} = {}

\* The embedding call raised on a list of three postings, the first of them
\* without text to embed.
C15_Witness ==
    /\ rk_pc = "ranked"
    /\ has_gemini
    /\ rk_env.kind = "raise"
    /\ Len(rk_jobs) = 3
    /\ ~Eligible(rk_jobs[1])
    /\ Eligible(rk_jobs[2])
    /\ rk_out = rk_jobs

\* C16: when ranking succeeds every posting of the list is in the returned
\* list exactly once; those left out of the embedding batch (nothing to
\* embed, or beyond the first 100 eligible) have score 0 and the reasoning
\* "not ranked".
C16_EveryJobKept ==
    RankSucceeded =>
        /\ Len(rk_out) = Len(rk_jobs)
        /\ \A i \in 1..Len(rk_jobs) :
              /\ Cardinality({k \in 1..Len(rk_out) : rk_out[k].id = i}) = 1
              /\ i \notin Batch =>
                    \A k \in 1..Len(rk_out) :
                        rk_out[k].id = i =>
                            /\ IsScored(rk_out[k])
                            /\ rk_out[k].relevance_score = 0
                            /\ rk_out[k].relevance_reasoning = "not ranked"

\* C17: every relevance_score assigned is an integer from 0 to 100.
C17_ScoresWithin0And100 ==
    rk_pc # "call" =>
        \A k \in 1..Len(rk_out) :
            IsScored(rk_out[k]) =>
                /\ rk_out[k].relevance_score >= 0
                /\ rk_out[k].relevance_score <= 100

\* 100 * cos(j, v) as the fraction [num, den], 0 when a norm is 0.
Cos100(j, v) ==
    IF Norm(v) > 0 /\ Norm(j) > 0
    THEN [num |-> 100 * Dot(j, v), den |-> Norm(v) * Norm(j)]
    ELSE [num |-> 0, den |-> 1]

\* n is an integer nearest to the fraction x.
IsNearest(n, x) ==
    LET d == 2 * (x.num - n * x.den)
    IN (IF d >= 0 THEN d ELSE -d) <= x.den

\* C18: without a query the score is 100 * cos(job, profile) rounded to the
\* nearest integer; with a query it is 0.7 * query_score + 0.3 *
\* profile_score rounded to the nearest integer, the two scores being the
\* rounded 100 * cos with the query and with the profile.
C18_RoundedScore ==
    rk_pc # "call" =>
        \A k \in 1..Len(rk_out) :
            IsScored(rk_out[k]) =>
                LET j == rk_env.docs[rk_out[k].description.topic]
                    sp == Cos100(j, rk_env.p)
                    sq == Cos100(j, rk_env.q)
                IN IF rk_query = "None"
                   THEN IsNearest(rk_out[k].relevance_score, sp)
                   ELSE \E ps, qs \in -100..100 :
                           /\ IsNearest(ps, sp)
                           /\ IsNearest(qs, sq)
                           /\ IsNearest(rk_out[k].relevance_score,
                                        [num |-> 7 * qs + 3 * ps, den |-> 10])

\* C19: the returned list is in descending score order, and two postings
\* with the same score are in the order they had in the list given (a
\* posting's id is its position there).
C19_SortedStable ==
    RankSucceeded =>
        \A a, b \in 1..Len(rk_out) :
            a < b =>
                /\ rk_out[a].relevance_score >= rk_out[b].relevance_score
                /\ rk_out[a].relevance_score = rk_out[b].relevance_score =>
                      rk_out[a].id < rk_out[b].id

\* The second posting scored highest and moved to the front; the first and
\* the third have the same score and kept their order.
C19_Witness ==
    /\ RankSucceeded
    /\ rk_pc = "ranked"
    /\ Len(rk_out) = 3
    /\ rk_out[1].id = 2
    /\ rk_out[2].id = 1
    /\ rk_out[3].id = 3
    /\ rk_out[1].relevance_score > rk_out[2].relevance_score
    /\ rk_out[2].relevance_score = rk_out[3].relevance_score

\* C20: ranking the same list again, and ranking the list the first call
\* returned, the embedding collaborator answering the same, both give the
\* list the first call returned: same order, scores and reasoning.
C20_RankingRepeatable ==
    /\ rk_pc \in {"same", "again"} => rk_same = rk_out
    /\ rk_pc = "again" => rk_again = rk_out

\* The three calls are done on a list that the first call reordered and in
\* which two postings have the same, non-zero score.
C20_Witness ==
    /\ RankSucceeded
    /\ rk_pc = "again"
    /\ Len(rk_out) = 3
    /\ rk_out[1].id = 2
    /\ rk_out[2].relevance_score = rk_out[3].relevance_score
    /\ rk_out[2].relevance_score > 0
    /\ rk_again = rk_out
    /\ rk_same = rk_out

\* C27: the reasoning of a scored posting is the label of the bucket of
\* its final score s (s >= 85 excellent, 70 <= s < 85 strong, 50 <= s < 70
\* moderate, s < 50 limited), followed, exactly when s >= 60, by the
\* alignment suffix: "search" when a query was given, "profile" when not.
C27_ReasoningBuckets ==
    rk_pc # "call" =>
        \A k \in 1..Len(rk_out) :
            IsScored(rk_out[k]) =>
                LET sc == rk_out[k].relevance_score
                    label == IF sc >= 85 THEN "Excellent match (Top 1%)"
                             ELSE IF sc >= 70 THEN "Tres pertinent"
                             ELSE IF sc >= 50 THEN "Correspondance moyenne"
                             ELSE "Pertinence limitee"
                    suffix == IF sc < 60 THEN ""
                              ELSE IF rk_query # "None"
                              THEN " . Aligne avec votre recherche"
                              ELSE " . Aligne avec votre profil"
                IN rk_out[k].relevance_reasoning = label \o suffix

\* With a query, a posting whose profile similarity alone is 60 and whose
\* hybrid score is 85 is labelled excellent, aligned with the search; a
\* posting with hybrid score 42 is labelled limited, without suffix.
C27_Witness ==
    /\ rk_pc = "ranked"
    /\ rk_query # "None"
    /\ rk_env.kind = "ok"
    /\ rk_env.p = <<1, 0>>
    /\ Len(rk_out) = 2
    /\ IsScored(rk_out[1])
    /\ rk_out[1].relevance_score = 85
    /\ rk_out[1].relevance_reasoning =
          "Excellent match (Top 1%) . Aligne avec votre recherche"
    /\ rk_out[2].relevance_score = 42
    /\ rk_out[2].relevance_reasoning = "Pertinence limitee"

----------------------------------------------------------------------------
(* Further properties of smart_search, checked under Spec *)

\* C21: every posting a smart-search call returns carries is_applied, true
\* exactly when its id is among the ids of the user's applications, on the
\* merged and on the national-fallback path, ranked or not; apart from
\* is_applied the returned list is the list the ranker returned, posting by
\* posting.
C21_AppliedAnnotation ==
    pc = "done" =>
        /\ Len(returned) = Len(reranked_jobs)
        /\ \A i \in 1..Len(returned) :
              /\ "is_applied" \in DOMAIN returned[i]
              /\ returned[i].is_applied <=> returned[i].id \in applied_job_ids
              /\ returned[i].id = reranked_jobs[i].id
              /\ DOMAIN returned[i] = DOMAIN reranked_jobs[i] \cup {"is_applied"}
              /\ \A f \in DOMAIN reranked_jobs[i] : returned[i][f] = reranked_jobs[i][f]

\* The call returned ranked postings found by the national fallback, one
\* of them applied to and one not.
C21_Witness ==
    /\ pc = "done"
    /\ fallbacks # <<>>
    /\ applied_job_ids = {1}
    /\ \E i, j \in 1..Len(returned) :
          /\ returned[i].is_applied
          /\ ~returned[j].is_applied
          /\ "relevance_score" \in DOMAIN returned[i]

RECURSIVE ConcatOk(_)
\* The postings of the successful results, in the order of the results.
ConcatOk(rl) ==
    IF rl = <<>> THEN <<>>
    ELSE (IF Head(rl).state = "ok" THEN Head(rl).jobs ELSE <<>>) \o ConcatOk(Tail(rl))

\* C22: tasks are submitted variation by variation in planner order, a
\* variation's primary before its secondary; nothing is merged before all
\* tasks have finished; the merged list is, of the postings of the
\* successful tasks taken in submission order and in source order within a
\* task, the first posting of each id, in that order.  It is thus a
\* function of the results by task, whatever order the tasks finished in.
C22_MergeInSubmissionOrder ==
    /\ \A i, j \in 1..Len(tasks) :
          i < j => \/ tasks[i].var < tasks[j].var
                   \/ /\ tasks[i].var = tasks[j].var
                      /\ tasks[i].role = "primary"
                      /\ tasks[j].role = "secondary"
    /\ pc = "gather" => all_jobs = <<>>
    /\ (Gathered /\ fallbacks = <<>>) =>
          LET all == ConcatOk(results_list)
              keep == {p \in 1..Len(all) :
                         /\ all[p].id # 0
                         /\ \A q \in 1..(p - 1) : all[q].id # all[p].id}
          IN /\ Len(all_jobs) = Cardinality(keep)
             /\ \A p \in keep : all_jobs[Cardinality({q \in keep : q <= p})] = all[p]

\* The primary and the secondary task of one variation both returned a
\* posting with id 1, in two different versions; the merged list starts
\* with the primary's version and holds id 1 once.
C22_Witness ==
    /\ pc = "rank"
    /\ Len(tasks) = 2
    /\ tasks[2].role = "secondary"
    /\ results_list[1].state = "ok"
    /\ results_list[2].state = "ok"
    /\ results_list[1].jobs = <<Job1b, JobNoId, Job1b>>
    /\ results_list[2].jobs = <<Job1a, Job2, Job3>>
    /\ all_jobs = <<Job1b, Job2, Job3>>

\* C23: a variation whose primary request goes out department-scoped gets
\* no secondary search (so none for commune 75056, sent as department 75),
\* and no variation has two tasks whose job board requests are the same.
C23_NoSecondaryWhenDepartmentScoped ==
    pc \notin {"plan", "resolve"} =>
        /\ \A i \in 1..Len(tasks) :
              (tasks[i].role = "primary"
                 /\ "departement" \in DOMAIN BuildParams(tasks[i].args)) =>
                  TasksOf(tasks[i].var, "secondary") = {}
        /\ \A i, j \in 1..Len(tasks) :
              (i < j /\ tasks[i].var = tasks[j].var) =>
                  BuildParams(tasks[i].args) # BuildParams(tasks[j].args)

\* C26: after the flattening step no element of the variations is a list,
\* whatever nesting the reasoning collaborator emitted, and a value that is
\* not a list has become a one-element list.
C26_VariationsFlat ==
    pc # "plan" =>
        /\ \A i \in 1..Len(variations) : variations[i].t # "list"
        /\ raw_variations.t # "list" => variations = <<raw_variations>>

\* C30: the merge drops every posting without id: a non-empty merged list
\* holds only postings with an id, and when no posting returned by the
\* primary and secondary tasks has an id the merged list is empty and the
\* national fallback search is issued.
C30_PostingsWithoutIdDropped ==
    /\ (Gathered /\ fallbacks = <<>>) =>
          /\ all_jobs # <<>>
          /\ \A m \in 1..Len(all_jobs) : all_jobs[m].id # 0
    /\ (Gathered /\ \A job \in OkPostings : job.id = 0) => Len(fallbacks) = 1
    /\ pc = "fallback" => all_jobs = <<>>

\* The primary and the secondary task of a variation each returned one
\* posting, without id: nothing was merged and the national fallback
\* search is under way.
C30_Witness ==
    /\ pc = "fallback"
    /\ Len(tasks) = 2
    /\ tasks[2].role = "secondary"
    /\ results_list[1].state = "ok"
    /\ results_list[2].state = "ok"
    /\ results_list[1].jobs = <<JobNoId>>
    /\ results_list[2].jobs = <<JobNoId>>
    /\ all_jobs = <<>>
    /\ Len(fallbacks) = 1

----------------------------------------------------------------------------
(* Properties of the location resolver, checked under SpecResolve *)

\* What the three lookups return for the call's raw location.
RegionHits == SearchRegions(rs_raw, rs_geo.regions)
DeptHits == SearchDepartments(rs_raw, rs_geo.depts)
CityHits == SearchCities(rs_raw, rs_geo.cities)

\* C24: with the hint unknown the resolver looks up regions, then
\* departments, then communes, stops at the first lookup that returns hits
\* (the later ones are not made) and returns the code of the first hit under
\* the key of that kind.
C24_UnknownHintOrder ==
    (rs_pc = "done" /\ rs_hint = "unknown") =>
        IF RegionHits # <<>>
        THEN /\ rs_out.lookups = <<"region">>
             /\ rs_out.params = [region |-> RegionHits[1].code]
        ELSE IF DeptHits # <<>>
        THEN /\ rs_out.lookups = <<"region", "departement">>
             /\ rs_out.params = [departement |-> DeptHits[1].code]
        ELSE IF CityHits # <<>>
        THEN /\ rs_out.lookups = <<"region", "departement", "commune">>
             /\ rs_out.params = [location |-> CityHits[1].code]
        ELSE /\ rs_out.lookups = <<"region", "departement", "commune">>
             /\ rs_out.params = <<>>

\* No region matched, the department lookup returned two hits and the
\* commune endpoint would have answered too: the first department is
\* returned and the communes were not looked up.
C24_Witness ==
    /\ rs_pc = "done"
    /\ rs_hint = "unknown"
    /\ RegionHits = <<>>
    /\ Len(DeptHits) = 2
    /\ rs_geo.cities.ok
    /\ rs_geo.cities.json # <<>>
    /\ rs_out.params = [departement |-> <<7, 5>>]
    /\ rs_out.lookups = <<"region", "departement">>

\* C25: with a hint of region, department or commune the resolver looks up
\* the hinted type first, goes on to the other types when that lookup is
\* empty, and returns nothing only when all three lookups are empty.
C25_HintedTypeFirstThenOthers ==
    (rs_pc = "done" /\ rs_hint # "unknown") =>
        LET hinted == IF rs_hint = "region" THEN RegionHits
                      ELSE IF rs_hint = "departement" THEN DeptHits
                      ELSE CityHits
        IN /\ rs_out.lookups # <<>>
           /\ rs_out.lookups[1] = rs_hint
           /\ hinted = <<>> => Len(rs_out.lookups) > 1
           /\ rs_out.params = <<>> =>
                 (RegionHits = <<>> /\ DeptHits = <<>> /\ CityHits = <<>>)

----------------------------------------------------------------------------
(* Properties of a batch of concurrent client calls, checked under         *)
(* SpecBatch                                                               *)

\* C28: whatever the interleaving of the calls of a batch, the cached
\* token and the cached expiry are those of one token response, the last
\* one received (and the cache is empty before any is received), and every
\* search request carries the token of some successful exchange.
C28_CachePairFromOneResponse ==
    /\ responses = <<>> => (access_token = 0 /\ token_expiry = 0)
    /\ responses # <<>> =>
          \E n \in 1..Len(responses) :
              /\ responses[n].complete
              /\ \A m \in (n + 1)..Len(responses) : ~responses[m].complete
              /\ access_token = responses[n].token
              /\ token_expiry = responses[n].received_at + responses[n].expires_in - 60
    /\ \A i \in 1..Len(bsent) :
          \E n \in 1..Len(responses) :
              responses[n].complete /\ responses[n].token = bsent[i].token

============================================================================
